---------------------------- MODULE Spec2Model ----------------------------
(***************************************************************************)
(* Model of the OceanofPDFs tag remover and renamer                        *)
(* (src/oceanofpdfs_remover_+_renamer.py and its enhanced variant          *)
(* src/oceanofpdfs_remover_+_renamer_v2.py).                               *)
(*                                                                         *)
(* Python str values are TLA+ strings; TLC evaluates Len, \o and SubSeq on *)
(* them, so every string function below works character by character, as  *)
(* the Python code does.  A directory is a function from the names that    *)
(* exist in it to file records.                                            *)
(***************************************************************************)
EXTENDS Integers, Sequences, FiniteSets, TLC

VARIABLES
    fs,         \* the directory: existing file name -> file record
    now,        \* the filesystem clock: stamp given to the next write
    cfg,        \* the command line flags: dry_run, links_only, no_rename
    pdf,        \* the candidate path handed to the orchestrator
    pc,         \* position inside process_single_pdf / process_pdf / rename_if_needed
    doc,        \* the document handle opened by process_pdf (pages), or NoneV
    text_hits,  \* process_pdf: text_hits
    link_hits,  \* process_pdf: link_hits
    changed,    \* process_pdf: changed
    times,      \* the (atime, mtime) captured by the last get_file_times
    exc,        \* the exception being handled (its text), or NoneV
    ret,        \* the tuple returned by process_pdf, or NoneV
    new_path,   \* rename_if_needed: new_path (NoneV while not computed / no rename)
    did_rename, \* process_single_pdf: did_rename
    attempt,    \* rename_if_needed: the loop variable attempt
    result,     \* the record returned by process_single_pdf, or NoneV
    orig,       \* history: the directory as it was before the file was processed
    rename_calls, \* history: outcome of every pdf_path.rename call of this file
    slept,      \* history: seconds spent in time.sleep by rename_if_needed
    log_file,   \* enhanced: the lines ProcessLogger.log_event appended (event, file)
    run,        \* number of the program run (the tool can be started again)
    variant,    \* "base" or "enhanced": which of the two scripts runs
    tqdm,       \* whether the progress bar package could be imported
    argv,       \* sys.argv[1:]
    opts,       \* main: no_progress, enable_ocr, notebooklm_notebook, log_dir
    mpc,        \* position inside main
    status,     \* the exit status of the process, or NoneV while it runs
    paths,      \* main: the valid path arguments, in order
    ABORT_SCAN, \* enhanced: the global abort flag
    cursor,     \* discovery: target index, directories to walk, files to look at
    local_pdfs, \* collect_pdfs_all: local_pdfs
    cloud_pdfs, \* collect_pdfs_all: cloud_pdfs
    todo,       \* main, standard mode: the part of all_pdfs not iterated yet
    count,      \* main: the counters processed, cleaned, renamed, failed, ...
    errors,     \* main: errors, error message -> filenames
    handled,    \* history: (candidate, result) of every process_single_pdf call
    yielded,    \* history: every candidate discovery produced, with ABORT_SCAN then
    logger,     \* enhanced: NoneV or the ProcessLogger (its processed_files)
    resume_file, \* enhanced: content of processed_files.json in the log directory
    staging     \* enhanced: the files copied to the NotebookLM staging directory

\* the history of the rename retry loop
renvars == << rename_calls, slept >>

\* the state of main and of the enhanced variant's logger and staging directory
mvars == << run, variant, tqdm, argv, opts, mpc, status, paths, ABORT_SCAN, cursor,
            local_pdfs, cloud_pdfs, todo, count, errors, handled, yielded, logger,
            resume_file, staging >>

vars == << fs, now, cfg, pdf, pc, doc, text_hits, link_hits, changed, times,
           exc, ret, new_path, did_rename, attempt, result, orig, renvars,
           log_file, mvars >>

-----------------------------------------------------------------------------
(* Optional values (Python None)                                           *)

NoneV == [tag |-> "None"]
Some(v) == [tag |-> "Some", val |-> v]

-----------------------------------------------------------------------------
(* Python str primitives                                                   *)

Char(s, i) == SubSeq(s, i, i)

UpperChars == "ABCDEFGHIJKLMNOPQRSTUVWXYZ"
LowerChars == "abcdefghijklmnopqrstuvwxyz"

\* str.lower() on one character
LowerChar(c) ==
    IF \E i \in 1..Len(UpperChars) : Char(UpperChars, i) = c
    THEN Char(LowerChars, CHOOSE i \in 1..Len(UpperChars) : Char(UpperChars, i) = c)
    ELSE c

\* str.lower()
RECURSIVE Lower(_)
Lower(s) ==
    IF Len(s) = 0 THEN ""
    ELSE LowerChar(Char(s, 1)) \o Lower(SubSeq(s, 2, Len(s)))

\* s.startswith(p)
StartsWith(s, p) == Len(p) <= Len(s) /\ SubSeq(s, 1, Len(p)) = p

\* s.endswith(p)
EndsWith(s, p) == Len(p) <= Len(s) /\ SubSeq(s, Len(s) - Len(p) + 1, Len(s)) = p

\* s.find(p) as a 1-based index, 0 when p does not occur in s
Find(s, p) ==
    LET hits == { i \in 1..(Len(s) - Len(p) + 1) : SubSeq(s, i, i + Len(p) - 1) = p }
    IN  IF hits = {} THEN 0 ELSE CHOOSE i \in hits : \A j \in hits : i <= j

\* p in s
Contains(s, p) == Find(s, p) # 0

\* s.rfind(".") as a 1-based index, 0 when there is no dot
RFindDot(s) ==
    LET hits == { i \in 1..Len(s) : Char(s, i) = "." }
    IN  IF hits = {} THEN 0 ELSE CHOOSE i \in hits : \A j \in hits : j <= i

\* the characters the regular expression class \s and str.strip() treat as space
IsSpace(c) == c \in {" ", "\t", "\n"}

\* str.strip()
RECURSIVE LStrip(_)
LStrip(s) ==
    IF Len(s) > 0 /\ IsSpace(Char(s, 1)) THEN LStrip(SubSeq(s, 2, Len(s))) ELSE s

RECURSIVE RStrip(_)
RStrip(s) ==
    IF Len(s) > 0 /\ IsSpace(Char(s, Len(s))) THEN RStrip(SubSeq(s, 1, Len(s) - 1)) ELSE s

Strip(s) == LStrip(RStrip(s))

\* str(i) for a natural number
Digits == "0123456789"

RECURSIVE ToStr(_)
ToStr(n) ==
    IF n < 10 THEN Char(Digits, n + 1)
    ELSE ToStr(n \div 10) \o Char(Digits, (n % 10) + 1)

-----------------------------------------------------------------------------
(* pathlib: a path is a string with "/" between its segments; a path       *)
(* without "/" is a file of the current directory                          *)

\* index of the last "/" of a path, 0 when there is none
RFindSlash(s) ==
    LET hits == { i \in 1..Len(s) : Char(s, i) = "/" }
    IN  IF hits = {} THEN 0 ELSE CHOOSE i \in hits : \A j \in hits : j <= i

\* PurePath.name: the final segment
Name(path) == SubSeq(path, RFindSlash(path) + 1, Len(path))

\* PurePath.parent ("" for the current directory)
Parent(path) == SubSeq(path, 1, RFindSlash(path) - 1)

\* parent / name
Join(parent, name) == IF parent = "" THEN name ELSE parent \o "/" \o name

\* PurePath.suffix
Suffix(path) ==
    LET name == Name(path)
        i    == RFindDot(name)
    IN  IF 1 < i /\ i < Len(name) THEN SubSeq(name, i, Len(name)) ELSE ""

\* PurePath.stem
Stem(path) ==
    LET name == Name(path)
        i    == RFindDot(name)
    IN  IF 1 < i /\ i < Len(name) THEN SubSeq(name, 1, i - 1) ELSE name

\* PurePath.with_name(name)
WithName(path, name) == Join(Parent(path), name)

\* PurePath.with_stem(stem)
WithStem(path, stem) == WithName(path, stem \o Suffix(path))

-----------------------------------------------------------------------------
(* Configuration constants                                                 *)

PHRASE == "OceanofPDFs.com"
URI_MATCH == "OceanofPDFs.com"
PREFIX == "_OceanofPDFs.com_"
ZLIB_SUFFIX == "_ (Z-Library)"
SEPARATOR == "_-_"
ILLEGAL_CHARS == { "\\", "/", ":", "*", "?", "\"", "<", ">", "|" }

-----------------------------------------------------------------------------
(* Filename rule engine                                                    *)

\* re.sub(r'[\\/:*?"<>|]', "", s).strip()
RECURSIVE RemoveIllegal(_)
RemoveIllegal(s) ==
    IF Len(s) = 0 THEN ""
    ELSE (IF Char(s, 1) \in ILLEGAL_CHARS THEN "" ELSE Char(s, 1))
         \o RemoveIllegal(SubSeq(s, 2, Len(s)))

sanitize(s) == Strip(RemoveIllegal(s))

\* re.sub(r"_+", " ", s): every maximal run of underscores becomes one space
RECURSIVE SubUnderscores(_)
SubUnderscores(s) ==
    IF Len(s) = 0 THEN ""
    ELSE IF Char(s, 1) = "_"
         THEN IF Len(s) > 1 /\ Char(s, 2) = "_"
              THEN SubUnderscores(SubSeq(s, 2, Len(s)))
              ELSE " " \o SubUnderscores(SubSeq(s, 2, Len(s)))
         ELSE Char(s, 1) \o SubUnderscores(SubSeq(s, 2, Len(s)))

\* re.sub(r"\s+", " ", s): every maximal run of whitespace becomes one space
RECURSIVE SubSpaces(_)
SubSpaces(s) ==
    IF Len(s) = 0 THEN ""
    ELSE IF IsSpace(Char(s, 1))
         THEN IF Len(s) > 1 /\ IsSpace(Char(s, 2))
              THEN SubSpaces(SubSeq(s, 2, Len(s)))
              ELSE " " \o SubSpaces(SubSeq(s, 2, Len(s)))
         ELSE Char(s, 1) \o SubSpaces(SubSeq(s, 2, Len(s)))

\* mutant: the slice drops one character too many
StripZlib_offbyone(name) ==
    IF EndsWith(name, ZLIB_SUFFIX)
    THEN SubSeq(name, 1, Len(name) - Len(ZLIB_SUFFIX) - 1)
    ELSE name

\* rule 1 of compute_rename: strip one trailing Z-Library suffix
StripZlib(name) ==
    IF EndsWith(name, ZLIB_SUFFIX)
    THEN SubSeq(name, 1, Len(name) - Len(ZLIB_SUFFIX))
    ELSE name

\* mutant: title and author are not reordered
ReformatPrefix_unswapped(name) ==
    IF StartsWith(name, PREFIX)
    THEN LET remainder == SubSeq(name, Len(PREFIX) + 1, Len(name))
             at == Find(remainder, SEPARATOR)
         IN  IF at # 0
             THEN LET title  == sanitize(SubSeq(remainder, 1, at - 1))
                      author == sanitize(SubSeq(remainder, at + Len(SEPARATOR),
                                                Len(remainder)))
                  IN  title \o " - " \o author
             ELSE name
    ELSE name

\* mutant: without a separator the name becomes the remainder after the prefix
ReformatPrefix_stripped(name) ==
    IF StartsWith(name, PREFIX)
    THEN LET remainder == SubSeq(name, Len(PREFIX) + 1, Len(name))
             at == Find(remainder, SEPARATOR)
         IN  IF at # 0
             THEN LET title  == sanitize(SubSeq(remainder, 1, at - 1))
                      author == sanitize(SubSeq(remainder, at + Len(SEPARATOR),
                                                Len(remainder)))
                  IN  author \o " - " \o title
             ELSE remainder
    ELSE name

\* rule 2 of compute_rename: "_OceanofPDFs.com_<title>_-_<author>" becomes
\* "<author> - <title>"; name is left as it is when the separator is absent
ReformatPrefix(name) ==
    IF StartsWith(name, PREFIX)
    THEN LET remainder == SubSeq(name, Len(PREFIX) + 1, Len(name))
             at == Find(remainder, SEPARATOR)
         IN  IF at # 0
             THEN LET title  == sanitize(SubSeq(remainder, 1, at - 1))
                      author == sanitize(SubSeq(remainder, at + Len(SEPARATOR),
                                                Len(remainder)))
                  IN  author \o " - " \o title
             ELSE name
    ELSE name

\* mutant: only the first underscore is replaced
NormalizeName_first(name) ==
    LET at == Find(name, "_")
    IN  Strip(SubSpaces(IF at = 0 THEN name
                        ELSE SubSeq(name, 1, at - 1) \o " "
                             \o SubSeq(name, at + 1, Len(name))))

\* rule 3 of compute_rename
NormalizeName(name) == Strip(SubSpaces(SubUnderscores(name)))

\* the loop of unique_path: the first candidate "stem (i)" that does not exist;
\* returns the candidate and the i it stopped at
RECURSIVE unique_loop(_, _, _)
unique_loop(p, i, existing) ==
    LET cand == WithStem(p, Stem(p) \o " (" \o ToStr(i) \o ")")
    IN  IF cand \notin existing
        THEN [path |-> cand, i |-> i]
        ELSE unique_loop(p, i + 1, existing)

\* mutant: the first candidate is returned without looking whether it exists
unique_path_unchecked(p, existing) ==
    IF p \notin existing THEN p ELSE WithStem(p, Stem(p) \o " (1)")

unique_path(p, existing) ==
    IF p \notin existing THEN p ELSE unique_loop(p, 1, existing).path

\* compute_rename: Some(new name) or NoneV ("no change")
compute_rename(pdf_path, existing) ==
    LET name     == NormalizeName(ReformatPrefix(StripZlib(Stem(pdf_path))))
        new_name == WithName(pdf_path, name \o Suffix(pdf_path))
    IN  IF new_name = pdf_path THEN NoneV ELSE Some(unique_path(new_name, existing))


\* the name compute_rename wants before collisions are resolved
target_name(pdf_path) ==
    WithName(pdf_path,
             NormalizeName(ReformatPrefix(StripZlib(Stem(pdf_path)))) \o Suffix(pdf_path))

-----------------------------------------------------------------------------
(* Content transform: pages, links, text spans                             *)
(* A page is [links, spans]: the URIs of its link annotations (in order,   *)
(* "" for a link without a uri) and the texts of its text spans.           *)

\* the literal characters of TEXT_PATTERN, each pair separated by \s*
TEXT_PATTERN_CHARS == "oceanofpdf.com"

\* re.match of "c1\s*c2\s*...cn" (case-insensitive) at position pos of txt,
\* having matched the first k-1 characters of pat
RECURSIVE SpacedMatchFrom(_, _, _, _)
SpacedMatchFrom(pat, txt, pos, k) ==
    IF k > Len(pat) THEN TRUE
    ELSE IF pos > Len(txt) THEN FALSE
    ELSE IF LowerChar(Char(txt, pos)) = Char(pat, k)
         THEN SpacedMatchFrom(pat, txt, pos + 1, k + 1)
    ELSE IF k > 1 /\ IsSpace(Char(txt, pos))
         THEN SpacedMatchFrom(pat, txt, pos + 1, k)
    ELSE FALSE

\* re.search of the spaced, case-insensitive pattern of pat in txt
SpacedSearch(pat, txt) == \E pos \in 1..Len(txt) : SpacedMatchFrom(pat, txt, pos, 1)

\* TEXT_PATTERN.search(txt)
TEXT_PATTERN_search(txt) == SpacedSearch(TEXT_PATTERN_CHARS, txt)

\* the test of remove_links: uri and URI_MATCH in uri.lower()
link_matches(uri) == uri # "" /\ Contains(Lower(uri), URI_MATCH)

\* the number of elements of a sequence that satisfy Test
CountSeq(s, Test(_)) == Len(SelectSeq(s, Test))

\* remove_links(page): the page without the matching links, and the count
remove_links(page) ==
    [page    |-> [page EXCEPT !.links = SelectSeq(page.links, LAMBDA u : ~link_matches(u))],
     removed |-> CountSeq(page.links, link_matches)]

\* page.get_text("text"): the span texts, one per line
RECURSIVE PlainText(_)
PlainText(spans) ==
    IF Len(spans) = 0 THEN "" ELSE spans[1] \o "\n" \o PlainText(Tail(spans))

\* page_might_contain_phrase(page)
page_might_contain_phrase(page) ==
    LET t == PlainText(page.spans) IN t # "" /\ TEXT_PATTERN_search(t)

\* the test of redact_phrase on one span: txt and TEXT_PATTERN.search(txt)
span_matches(txt) == txt # "" /\ TEXT_PATTERN_search(txt)

\* mutant: the matching spans are counted but stay on the page
redact_phrase_counted(page) ==
    [page |-> page, hits |-> CountSeq(page.spans, span_matches)]

\* redact_phrase(page): the page with the matching spans whited out, and the count
redact_phrase(page) ==
    [page |-> [page EXCEPT !.spans = SelectSeq(page.spans, LAMBDA t : ~span_matches(t))],
     hits |-> CountSeq(page.spans, span_matches)]

\* pass 1 of process_pdf over every page of the document
LinkPassPages(pages) == [i \in 1..Len(pages) |-> remove_links(pages[i]).page]

RECURSIVE LinkPassHits(_)
LinkPassHits(pages) ==
    IF Len(pages) = 0 THEN 0
    ELSE remove_links(Head(pages)).removed + LinkPassHits(Tail(pages))

\* pass 2 of process_pdf: redact_phrase on the pages that pass the pre-check
TextPassPages(pages) ==
    [i \in 1..Len(pages) |->
        IF page_might_contain_phrase(pages[i]) THEN redact_phrase(pages[i]).page
        ELSE pages[i]]

RECURSIVE TextPassHits(_)
TextPassHits(pages) ==
    IF Len(pages) = 0 THEN 0
    ELSE (IF page_might_contain_phrase(Head(pages))
          THEN redact_phrase(Head(pages)).hits ELSE 0) + TextPassHits(Tail(pages))

-----------------------------------------------------------------------------
(* The directory                                                           *)
(* A file record holds its bytes (pages and form) and its access and       *)
(* modify times.  form tells complete files apart from a partly written    *)
(* one: "orig" as downloaded, "saved" as written by doc.save, "partial"    *)
(* a save that raised midway, "stray"/"other" unrelated files.             *)

File(pages, form, atime, mtime) ==
    [pages |-> pages, form |-> form, atime |-> atime, mtime |-> mtime]

Bytes(f) == << f.pages, f.form >>

Put(dir, name, file) ==
    [n \in (DOMAIN dir) \cup {name} |-> IF n = name THEN file ELSE dir[n]]

Del(dir, name) == [n \in (DOMAIN dir) \ {name} |-> dir[n]]

\* temp = pdf_path.with_suffix(pdf_path.suffix + ".tmp")
TempPath(pdf_path) ==
    WithName(pdf_path, Stem(pdf_path) \o Suffix(pdf_path) \o ".tmp")

\* mutant: the temp file is never removed
cleanup_temp_noop(dir, temp) == dir

\* if temp.exists(): temp.unlink()
cleanup_temp(dir, temp) == IF temp \in DOMAIN dir THEN Del(dir, temp) ELSE dir

\* get_file_times(path): (atime, mtime), the ctime slot is not modelled
get_file_times(dir, path) ==
    IF path \in DOMAIN dir
    THEN Some([atime |-> dir[path].atime, mtime |-> dir[path].mtime])
    ELSE NoneV

\* mutant: the two times are written the wrong way round
restore_times_swapped(dir, path, t) ==
    IF t = NoneV \/ path \notin DOMAIN dir THEN dir
    ELSE [dir EXCEPT ![path].atime = t.val.mtime, ![path].mtime = t.val.atime]

\* restore_times(path, atime, mtime, ctime) when os.utime succeeds
restore_times(dir, path, t) ==
    IF t = NoneV \/ path \notin DOMAIN dir THEN dir
    ELSE [dir EXCEPT ![path].atime = t.val.atime, ![path].mtime = t.val.mtime]

-----------------------------------------------------------------------------
(* Inputs                                                                  *)

MaxPages == 2

\* the retries default of rename_if_needed
RETRIES == 3

\* texts of the exceptions the PDF library can raise (str(e) may be empty)
ErrTexts == { "", "boom" }

\* texts of the OSErrors Path.rename can raise
OSErrorTexts == { "The Cloud Operation failed", "Time-Out expired", "Access denied" }

\* pages of the input documents
PageKinds ==
    { [links |-> << "http://a.b/c" >>,              spans |-> << "Chapter 1" >>],
      [links |-> << "https://oceanofpdfs.com/x" >>, spans |-> << "OceanofPDFs.com" >>],
      [links |-> << "https://OceanofPDFs.com", "" >>,
       spans |-> << "O c e a n o f P D F s . c o m", "Chapter 1" >>],
      [links |-> << >>,                             spans |-> << "Get OceanofPDF.com", "The End" >>],
      [links |-> << >>,                             spans |-> << "OceanofPDF", ".com" >>] }

Docs == UNION { [1..n -> PageKinds] : n \in 1..MaxPages }

\* names of the candidate files
PdfNames ==
    { "_OceanofPDFs.com_Gatsby_-_Fitzgerald.pdf", "already_clean.pdf", "clean.pdf" }

Flags == [dry_run : BOOLEAN, links_only : BOOLEAN, no_rename : BOOLEAN]

-----------------------------------------------------------------------------
(* process_single_pdf, base variant: one candidate through process_pdf and *)
(* rename_if_needed                                                        *)

Idle ==
    /\ doc = NoneV /\ text_hits = 0 /\ link_hits = 0 /\ changed = FALSE
    /\ times = NoneV /\ exc = NoneV /\ ret = NoneV /\ new_path = NoneV
    /\ did_rename = FALSE /\ attempt = 0 /\ result = NoneV
    /\ rename_calls = << >> /\ slept = 0

\* a mapping without keys (Python {})
EmptyMap == [k \in {} |-> << >>]

\* main's counters before the first file
ZeroCount ==
    [processed |-> 0, cleaned |-> 0, renamed |-> 0, failed |-> 0, skipped |-> 0,
     ocr |-> 0, uploaded |-> 0]

\* the options of a command line without any flag
NoOpts == [no_progress |-> FALSE, enable_ocr |-> FALSE, notebook |-> NoneV, log_dir |-> NoneV]

\* discovery before it has started
NoCursor == [ti |-> 1, walking |-> FALSE, dirs |-> << >>, cur |-> "", files |-> {}]

\* process_single_pdf called on its own by the base variant: main plays no part
MainIdle ==
    /\ run = 1 /\ variant = "base" /\ tqdm = TRUE /\ argv = << >> /\ opts = NoOpts
    /\ mpc = "file" /\ status = NoneV /\ paths = << >> /\ ABORT_SCAN = FALSE
    /\ cursor = NoCursor /\ local_pdfs = << >> /\ cloud_pdfs = << >> /\ todo = << >>
    /\ count = ZeroCount /\ errors = EmptyMap /\ handled = << >> /\ yielded = << >>
    /\ logger = NoneV /\ resume_file = NoneV /\ staging = EmptyMap
    /\ log_file = << >>

\* the directory the program was started in
CWD == "/home/u"

\* Path.absolute()
Absolute(path) == IF StartsWith(path, "/") THEN path ELSE Join(CWD, path)

\* mutant: no path is ever found in the resume set
is_processed_never(lg, pdf_path) == FALSE

\* ProcessLogger.is_processed
is_processed(lg, pdf_path) == Absolute(pdf_path) \in lg.val.processed_files

\* "if logger: logger.log_event(event, path, ...)": one more line in the log file
log_event(lf, lg, event, path) ==
    IF lg = NoneV THEN lf ELSE Append(lf, << event, Absolute(path) >>)

Init ==
    /\ \E name \in PdfNames, pages \in Docs, stray \in BOOLEAN, collide \in BOOLEAN :
          LET d0 == ( name :> File(pages, "orig", 2, 1) )
              d1 == IF stray THEN Put(d0, TempPath(name), File(<< >>, "stray", 1, 1)) ELSE d0
              d2 == IF collide /\ target_name(name) # name
                    THEN Put(d1, target_name(name), File(<< >>, "other", 1, 1)) ELSE d1
          IN  /\ pdf = name
              /\ fs = d2
    /\ orig = fs
    /\ now = 3
    /\ cfg \in Flags
    /\ pc = "start"
    /\ Idle
    /\ MainIdle

\* an exception raised inside the try block of process_pdf
Raise(e) == /\ exc' = Some(e) /\ pc' = "except"

\* process_pdf lines 539-544: temp, the counters, get_file_times
Begin ==
    /\ pc = "start" /\ mpc = "file"
    /\ ~(logger # NoneV /\ is_processed(logger, pdf))
    /\ times' = get_file_times(fs, pdf)
    /\ text_hits' = 0 /\ link_hits' = 0
    /\ pc' = "open"
    /\ UNCHANGED << fs, now, cfg, pdf, doc, changed, exc, ret, new_path,
                    did_rename, attempt, result, orig,
                    renvars, log_file, mvars >>

\* doc = fitz.open(pdf_path)
Open ==
    /\ pc = "open"
    /\ \/ /\ pdf \in DOMAIN fs
          /\ doc' = Some(fs[pdf].pages) /\ pc' = "links" /\ UNCHANGED exc
       \/ /\ \E e \in ErrTexts : Raise(e)
          /\ UNCHANGED doc
    /\ UNCHANGED << fs, now, cfg, pdf, text_hits, link_hits, changed, times, ret,
                    new_path, did_rename, attempt, result, orig,
                    renvars, log_file, mvars >>

\* mutant: the text pass follows the link pass in links-only mode too
LinkPassThenText ==
    /\ pc = "links"
    /\ \/ /\ doc' = Some(LinkPassPages(doc.val))
          /\ link_hits' = link_hits + LinkPassHits(doc.val)
          /\ pc' = "text"
          /\ UNCHANGED exc
       \/ /\ \E e \in ErrTexts : Raise(e)
          /\ UNCHANGED << doc, link_hits >>
    /\ UNCHANGED << fs, now, cfg, pdf, text_hits, changed, times, ret, new_path,
                    did_rename, attempt, result, orig,
                    renvars, log_file, mvars >>

\* pass 1: for page in doc: link_hits += remove_links(page)
LinkPass ==
    /\ pc = "links"
    /\ \/ /\ doc' = Some(LinkPassPages(doc.val))
          /\ link_hits' = link_hits + LinkPassHits(doc.val)
          /\ pc' = IF cfg.links_only THEN "decide" ELSE "text"
          /\ UNCHANGED exc
       \/ /\ \E e \in ErrTexts : Raise(e)
          /\ UNCHANGED << doc, link_hits >>
    /\ UNCHANGED << fs, now, cfg, pdf, text_hits, changed, times, ret, new_path,
                    did_rename, attempt, result, orig,
                    renvars, log_file, mvars >>

\* pass 2: if not links_only: for page in doc: pre-check, redact_phrase
TextPass ==
    /\ pc = "text"
    /\ \/ /\ doc' = Some(TextPassPages(doc.val))
          /\ text_hits' = text_hits + TextPassHits(doc.val)
          /\ pc' = "decide"
          /\ UNCHANGED exc
       \/ /\ \E e \in ErrTexts : Raise(e)
          /\ UNCHANGED << doc, text_hits >>
    /\ UNCHANGED << fs, now, cfg, pdf, link_hits, changed, times, ret, new_path,
                    did_rename, attempt, result, orig,
                    renvars, log_file, mvars >>

\* the value process_pdf returns
Ret(c, t, l, e) == Some([changed |-> c, text_hits |-> t, link_hits |-> l, err |-> e])

\* changed = (text_hits + link_hits) > 0; if dry_run: doc.close(); return True, ...
DryRunReturn ==
    /\ pc = "decide" /\ cfg.dry_run
    /\ changed' = ((text_hits + link_hits) > 0)
    /\ \/ /\ doc' = NoneV
          /\ ret' = Ret(TRUE, text_hits, link_hits, NoneV)
          /\ pc' = "returned"
          /\ UNCHANGED exc
       \/ /\ \E e \in ErrTexts : Raise(e)
          /\ UNCHANGED << doc, ret >>
    /\ UNCHANGED << fs, now, cfg, pdf, text_hits, link_hits, times, new_path,
                    did_rename, attempt, result, orig,
                    renvars, log_file, mvars >>

\* if changed: doc.save(temp, garbage=4, deflate=True, clean=True)
Save ==
    /\ pc = "decide" /\ ~cfg.dry_run /\ (text_hits + link_hits) > 0
    /\ changed' = TRUE
    /\ \/ /\ fs' = Put(fs, TempPath(pdf), File(doc.val, "saved", now, now))
          /\ pc' = "close"
          /\ UNCHANGED exc
       \/ \* the save raises, before or after it has started to write temp
          /\ \E e \in ErrTexts : Raise(e)
          /\ \/ fs' = fs
             \/ fs' = Put(fs, TempPath(pdf), File(<< >>, "partial", now, now))
    /\ now' = now + 1
    /\ UNCHANGED << cfg, pdf, doc, text_hits, link_hits, times, ret, new_path,
                    did_rename, attempt, result, orig,
                    renvars, log_file, mvars >>

\* nothing to save: changed is False
SkipSave ==
    /\ pc = "decide" /\ ~cfg.dry_run /\ ~((text_hits + link_hits) > 0)
    /\ changed' = FALSE
    /\ pc' = "close"
    /\ UNCHANGED << fs, now, cfg, pdf, doc, text_hits, link_hits, times, exc, ret,
                    new_path, did_rename, attempt, result, orig,
                    renvars, log_file, mvars >>

\* doc.close(); if not changed: unlink a temp that exists, return False, 0, 0, None
Close ==
    /\ pc = "close"
    /\ \/ /\ doc' = NoneV
          /\ IF changed
             THEN /\ pc' = "move"
                  /\ UNCHANGED << fs, ret >>
             ELSE /\ fs' = cleanup_temp(fs, TempPath(pdf))
                  /\ ret' = Ret(FALSE, 0, 0, NoneV)
                  /\ pc' = "returned"
          /\ UNCHANGED exc
       \/ /\ \E e \in ErrTexts : Raise(e)
          /\ UNCHANGED << doc, fs, ret >>
    /\ UNCHANGED << now, cfg, pdf, text_hits, link_hits, changed, times, new_path,
                    did_rename, attempt, result, orig,
                    renvars, log_file, mvars >>

\* shutil.move(temp, pdf_path): a rename inside one directory, atomic
Move ==
    /\ pc = "move"
    /\ \/ /\ fs' = Del(Put(fs, pdf, fs[TempPath(pdf)]), TempPath(pdf))
          /\ pc' = "restore"
          /\ UNCHANGED exc
       \/ /\ \E e \in ErrTexts : Raise(e)
          /\ UNCHANGED fs
    /\ UNCHANGED << now, cfg, pdf, doc, text_hits, link_hits, changed, times, ret,
                    new_path, did_rename, attempt, result, orig,
                    renvars, log_file, mvars >>

\* restore_times(pdf_path, atime, mtime, ctime); return True, text_hits, link_hits, None
\* (an os.utime that fails is swallowed and leaves the times of the write)
Restore ==
    /\ pc = "restore"
    /\ \/ fs' = restore_times(fs, pdf, times)
       \/ fs' = fs
    /\ ret' = Ret(TRUE, text_hits, link_hits, NoneV)
    /\ pc' = "returned"
    /\ UNCHANGED << now, cfg, pdf, doc, text_hits, link_hits, changed, times, exc,
                    new_path, did_rename, attempt, result, orig,
                    renvars, log_file, mvars >>

\* except Exception as e: unlink temp if it exists; return False, -1, -1, str(e)
Except ==
    /\ pc = "except"
    /\ fs' = cleanup_temp(fs, TempPath(pdf))
    /\ ret' = Ret(FALSE, -1, -1, Some(exc.val))
    /\ pc' = "returned"
    /\ UNCHANGED << now, cfg, pdf, doc, text_hits, link_hits, changed, times, exc,
                    new_path, did_rename, attempt, result, orig,
                    renvars, log_file, mvars >>

\* Python truth of err: not None and not the empty string
Truthy(e) == e # NoneV /\ e.val # ""

\* if err: log, return {'failed': 1, 'error': err, 'filename': pdf.name}
FailReturn ==
    /\ pc = "returned" /\ Truthy(ret.val.err)
    /\ result' = Some([failed |-> 1, error |-> ret.val.err.val, filename |-> Name(pdf)])
    /\ log_file' = log_event(log_file, logger, "failed", pdf)
    /\ pc' = "done"
    /\ UNCHANGED << fs, now, cfg, pdf, doc, text_hits, link_hits, changed, times,
                    exc, ret, new_path, did_rename, attempt, orig,
                    renvars, mvars >>

\* if no_rename: did_rename = False, new_path = pdf
SkipRename ==
    /\ pc = "returned" /\ ~Truthy(ret.val.err) /\ cfg.no_rename
    /\ pc' = "report"
    /\ UNCHANGED << fs, now, cfg, pdf, doc, text_hits, link_hits, changed, times,
                    exc, ret, new_path, did_rename, attempt, result, orig,
                    renvars, log_file, mvars >>

\* rename_if_needed up to the retry loop: compute_rename, get_file_times, dry run
RenameDecide ==
    /\ pc = "returned" /\ ~Truthy(ret.val.err) /\ ~cfg.no_rename
    /\ LET np == compute_rename(pdf, DOMAIN fs)
       IN  IF np = NoneV
           THEN /\ pc' = "report"
                /\ UNCHANGED << new_path, times, did_rename >>
           ELSE /\ new_path' = np
                /\ times' = get_file_times(fs, pdf)
                /\ IF cfg.dry_run
                   THEN did_rename' = TRUE /\ pc' = "report"
                   ELSE did_rename' = FALSE /\ pc' = "attempt"
    /\ attempt' = 0
    /\ UNCHANGED << fs, now, cfg, pdf, doc, text_hits, link_hits, changed, exc, ret,
                    result, orig,
                    renvars, log_file, mvars >>

\* mutant: every OSError is taken for a cloud time-out
is_cloud_error_any(msg) == TRUE

\* the test of the except clause of rename_if_needed
is_cloud_error(msg) ==
    LET low == Lower(msg)
    IN  Contains(low, "cloud operation") \/ Contains(low, "time-out")

\* one iteration of "for attempt in range(retries)": pdf_path.rename(new_path)
RenameAttempt ==
    /\ pc = "attempt" /\ attempt < RETRIES
    /\ \/ \* the rename succeeds; restore_times on the new path; return True, new_path
          /\ pdf \in DOMAIN fs
          /\ \E utime_ok \in BOOLEAN :
                LET moved == Del(Put(fs, new_path.val, fs[pdf]), pdf)
                IN  fs' = IF utime_ok THEN restore_times(moved, new_path.val, times)
                          ELSE moved
          /\ did_rename' = TRUE
          /\ rename_calls' = Append(rename_calls, "ok")
          /\ pc' = "report"
          /\ UNCHANGED << attempt, result, slept, log_file >>
       \/ \* OSError: sleep and try again, or re-raise into process_single_pdf
          \E e \in OSErrorTexts :
             /\ rename_calls' = Append(rename_calls, e)
             /\ IF is_cloud_error(e) /\ attempt < RETRIES - 1
                THEN /\ attempt' = attempt + 1
                     /\ slept' = slept + 1
                     /\ UNCHANGED << fs, did_rename, pc, result, log_file >>
                ELSE /\ result' = Some([failed |-> 1, error |-> e, filename |-> Name(pdf)])
                     /\ log_file' = log_event(log_file, logger, "failed", pdf)
                     /\ pc' = "done"
                     /\ UNCHANGED << fs, did_rename, attempt, slept >>
    /\ UNCHANGED << now, cfg, pdf, doc, text_hits, link_hits, changed, times, exc,
                    ret, new_path, orig,
                    mvars >>

\* new_path of process_single_pdf: the rename target, or pdf when there was no rename
final_path == IF did_rename THEN new_path.val ELSE pdf

\* result = {'cleaned': .., 'renamed': .., 'failed': 0, ...}, the log lines; the base
\* variant returns result here, the enhanced variant goes on to OCR and upload
Report ==
    /\ pc = "report"
    /\ result' = Some(IF variant = "enhanced"
                       THEN [cleaned |-> IF ret.val.changed THEN 1 ELSE 0,
                             renamed |-> IF did_rename THEN 1 ELSE 0,
                             failed  |-> 0, ocr |-> 0, uploaded |-> 0]
                       ELSE [cleaned |-> IF ret.val.changed THEN 1 ELSE 0,
                             renamed |-> IF did_rename THEN 1 ELSE 0,
                             failed  |-> 0])
    /\ log_file' = IF ret.val.changed THEN log_event(log_file, logger, "cleaned", final_path)
                   ELSE IF did_rename THEN log_event(log_file, logger, "renamed", final_path)
                   ELSE log_file
    /\ pc' = IF variant = "enhanced" THEN "ocr" ELSE "done"
    /\ UNCHANGED << fs, now, cfg, pdf, doc, text_hits, link_hits, changed, times,
                    exc, ret, new_path, did_rename, attempt, orig,
                    renvars, mvars >>

Next ==
    \/ Begin \/ Open \/ LinkPass \/ TextPass \/ DryRunReturn \/ Save \/ SkipSave
    \/ Close \/ Move \/ Restore \/ Except
    \/ FailReturn \/ SkipRename \/ RenameDecide \/ RenameAttempt \/ Report

Spec == Init /\ [][Next]_vars

-----------------------------------------------------------------------------
(* The filename rule engine on its own: compute_rename and unique_path on  *)
(* generated file names and directories                                    *)

MaxBody == 5
MaxCollide == 3

Alphabet == { "_", "-", " ", "a", ":" }

\* every string over Alphabet of length at most n
RECURSIVE Bodies(_)
Bodies(n) ==
    IF n = 0 THEN { "" }
    ELSE LET shorter == Bodies(n - 1)
         IN  shorter \cup { b \o c : b \in shorter, c \in Alphabet }

\* stems: an optional prefix, a generated body, an optional Z-Library suffix
GeneratedStems ==
    { pre \o b \o suf : pre \in { "", PREFIX }, b \in Bodies(MaxBody),
                        suf \in { "", ZLIB_SUFFIX } }

SampleStems ==
    { "already_clean", "clean", "Book_Title_ (Z-Library)",
      "Book_ (Z-Library)_ (Z-Library)", "_OceanofPDFs.com_Gatsby_-_Fitzgerald",
      "_OceanofPDFs.com_The_Great_Gatsby_-_F_Scott_Fitzgerald",
      "_OceanofPDFs.com_Book", "a.b" }

\* the i-th collision candidate of unique_path for p (p itself for i = 0)
Candidate(p, i) == IF i = 0 THEN p ELSE WithStem(p, Stem(p) \o " (" \o ToStr(i) \o ")")

OtherFile == File(<< >>, "other", 1, 1)

DirOf(name, others) ==
    [n \in {name} \cup others |->
        IF n = name THEN File(<< [links |-> << >>, spans |-> << >>] >>, "orig", 2, 1)
        ELSE OtherFile]

InitRename ==
    /\ \/ \* generated names, the wanted name free or taken
          \E stem \in GeneratedStems, taken \in BOOLEAN :
             /\ pdf = stem \o ".pdf"
             /\ fs = DirOf(pdf, IF taken THEN { target_name(pdf) } ELSE {})
       \/ \* sample names, any set of collision candidates taken
          \E stem \in SampleStems, K \in SUBSET (0..MaxCollide) :
             /\ pdf = stem \o ".pdf"
             /\ fs = DirOf(pdf, { Candidate(target_name(pdf), i) : i \in K })
    /\ orig = fs
    /\ now = 3
    /\ cfg = [dry_run |-> TRUE, links_only |-> FALSE, no_rename |-> FALSE]
    /\ pc = "compute"
    /\ Idle
    /\ MainIdle

\* new_path = compute_rename(pdf_path)
ComputeRenameCall ==
    /\ pc = "compute"
    /\ new_path' = compute_rename(pdf, DOMAIN fs)
    /\ pc' = "computed"
    /\ UNCHANGED << fs, now, cfg, pdf, doc, text_hits, link_hits, changed, times,
                    exc, ret, did_rename, attempt, result, orig,
                    renvars, log_file, mvars >>

\* unique_path(p) for the name compute_rename wants and for the taken names
UniquePathCall ==
    /\ pc = "compute"
    /\ \E p \in (DOMAIN fs) \cup { target_name(pdf) } :
          result' = Some([p |-> p, path |-> unique_path(p, DOMAIN fs)])
    /\ pc' = "uniqued"
    /\ UNCHANGED << fs, now, cfg, pdf, doc, text_hits, link_hits, changed, times,
                    exc, ret, new_path, did_rename, attempt, orig,
                    renvars, log_file, mvars >>

NextRename == ComputeRenameCall \/ UniquePathCall

SpecRename == InitRename /\ [][NextRename]_vars

-----------------------------------------------------------------------------
(* The tool started a second time on the file a first run has left          *)

OnePageDocs == [1..1 -> PageKinds]

InitAgain ==
    /\ \E name \in PdfNames, pages \in OnePageDocs, stray \in BOOLEAN :
          /\ pdf = name
          /\ fs = IF stray
                  THEN Put(( name :> File(pages, "orig", 2, 1) ), TempPath(name),
                           File(<< >>, "stray", 1, 1))
                  ELSE ( name :> File(pages, "orig", 2, 1) )
    /\ orig = fs
    /\ now = 3
    /\ cfg \in Flags
    /\ pc = "start"
    /\ Idle
    /\ MainIdle

\* a second call of process_single_pdf, with the same flags, on the file left by a
\* first call that was no dry run and did not fail
Again ==
    /\ pc = "done" /\ run = 1 /\ mpc = "file"
    /\ ~cfg.dry_run /\ exc = NoneV /\ result.val.failed = 0
    /\ pdf' = final_path
    /\ orig' = fs
    /\ run' = 2
    /\ pc' = "start"
    /\ doc' = NoneV /\ text_hits' = 0 /\ link_hits' = 0 /\ changed' = FALSE
    /\ times' = NoneV /\ ret' = NoneV /\ new_path' = NoneV
    /\ did_rename' = FALSE /\ attempt' = 0 /\ result' = NoneV
    /\ rename_calls' = << >> /\ slept' = 0
    /\ UNCHANGED << fs, now, cfg, exc, log_file, variant, tqdm, argv, opts, mpc,
                    status, paths, ABORT_SCAN, cursor, local_pdfs, cloud_pdfs, todo,
                    count, errors, handled, yielded, logger, resume_file, staging >>

NextAgain == Next \/ Again

SpecAgain == InitAgain /\ [][NextAgain]_vars

-----------------------------------------------------------------------------
(* One file name, every document: the passes of process_pdf over the pages *)

InitPasses ==
    /\ \E pages \in Docs :
          /\ pdf = "_OceanofPDFs.com_Gatsby_-_Fitzgerald.pdf"
          /\ fs = ( pdf :> File(pages, "orig", 2, 1) )
    /\ orig = fs
    /\ now = 3
    /\ cfg \in Flags
    /\ pc = "start"
    /\ Idle
    /\ MainIdle

SpecPasses == InitPasses /\ [][Next]_vars

-----------------------------------------------------------------------------
(* One file, with a path.stat() that can fail inside get_file_times         *)

\* get_file_times, the except branch: path.stat() raised and the capture that
\* process_pdf or rename_if_needed has just made is (None, None, None)
StatFails ==
    /\ \/ pc = "open"
       \/ pc = "attempt" /\ attempt = 0
    /\ times # NoneV
    /\ times' = NoneV
    /\ UNCHANGED << fs, now, cfg, pdf, doc, text_hits, link_hits, changed, exc, ret,
                    new_path, did_rename, attempt, result, orig, pc,
                    renvars, log_file, mvars >>

NextTimes == Next \/ StatFails

SpecTimes == InitAgain /\ [][NextTimes]_vars

-----------------------------------------------------------------------------
(* The enhanced variant's stages of process_single_pdf: resume skip, OCR,   *)
(* staging copy, mark-processed                                            *)

\* the locals of process_single_pdf, process_pdf and rename_if_needed
fvars == << doc, text_hits, link_hits, changed, times, exc, ret, new_path,
            did_rename, attempt, result, rename_calls, slept >>

\* the state of main without the logger, the resume file and the staging directory
dvars == << run, variant, tqdm, argv, opts, mpc, status, paths, ABORT_SCAN, cursor,
            local_pdfs, cloud_pdfs, todo, count, errors, handled, yielded >>

\* if logger and logger.is_processed(pdf): log, return {'skipped': 1}
ResumeSkip ==
    /\ pc = "start" /\ mpc = "file"
    /\ logger # NoneV /\ is_processed(logger, pdf)
    /\ result' = Some([skipped |-> 1])
    /\ log_file' = log_event(log_file, logger, "skipped", pdf)
    /\ pc' = "done"
    /\ UNCHANGED << fs, now, cfg, pdf, doc, text_hits, link_hits, changed, times, exc,
                    ret, new_path, did_rename, attempt, orig, renvars, mvars >>

\* page.get_text().strip() is not empty on some page
has_text(pages) == \E i \in 1..Len(pages) : Strip(PlainText(pages[i].spans)) # ""

\* temp_output = pdf_path.with_suffix('.ocr.pdf')
OcrTemp(pdf_path) == WithName(pdf_path, Stem(pdf_path) \o ".ocr.pdf")

\* the pages ocrmypdf writes: a text layer on every page that had no text
OcrPages(pages) ==
    [i \in 1..Len(pages) |->
        IF Strip(PlainText(pages[i].spans)) = ""
        THEN [pages[i] EXCEPT !.spans = << "scanned text" >>] ELSE pages[i]]

\* what process_single_pdf does with the value of ocr_pdf
OcrReturn(ok) ==
    /\ result' = IF ok THEN Some([result.val EXCEPT !.ocr = 1]) ELSE result
    /\ log_file' = log_event(log_file, logger, "ocr", final_path)
    /\ pc' = "upload"

\* an exception that leaves process_single_pdf and main: traceback, exit status 1
Crash ==
    /\ pc' = "crashed" /\ mpc' = "exit"
    /\ status' = Some([code |-> 1, how |-> "traceback"])

\* "if enable_ocr and not dry_run" is false
OcrSkip ==
    /\ pc = "ocr" /\ ~(opts.enable_ocr /\ ~cfg.dry_run)
    /\ pc' = "upload"
    /\ UNCHANGED << fs, now, cfg, pdf, orig, fvars, log_file, mvars >>

\* ocr_pdf up to the computation of temp_output: import ocrmypdf, fitz.open, the
\* has_text loop, doc.close
OcrOpen ==
    /\ pc = "ocr" /\ opts.enable_ocr /\ ~cfg.dry_run
    /\ \/ \* the document has text: return True
          /\ final_path \in DOMAIN fs /\ has_text(fs[final_path].pages)
          /\ OcrReturn(TRUE)
          /\ UNCHANGED << exc, mpc, status >>
       \/ \* no text: go on to ocrmypdf.ocr
          /\ final_path \in DOMAIN fs /\ ~has_text(fs[final_path].pages)
          /\ pc' = "ocr_run"
          /\ UNCHANGED << exc, result, log_file, mpc, status >>
       \/ \* ImportError: return False
          /\ OcrReturn(FALSE)
          /\ UNCHANGED << exc, mpc, status >>
       \/ \* fitz.open, get_text or doc.close raises: the except clause reads
          \* temp_output, which is not bound yet, and raises UnboundLocalError
          /\ \E e \in ErrTexts : exc' = Some(e)
          /\ Crash
          /\ UNCHANGED << result, log_file >>
    /\ UNCHANGED << fs, now, cfg, pdf, doc, text_hits, link_hits, changed, times, ret,
                    new_path, did_rename, attempt, orig, renvars, run, variant, tqdm,
                    argv, opts, paths, ABORT_SCAN, cursor, local_pdfs, cloud_pdfs,
                    todo, count, errors, handled, yielded, logger, resume_file,
                    staging >>

\* ocrmypdf.ocr(pdf_path, temp_output, ...): writes temp_output; an exception is
\* caught, temp_output is unlinked if it exists, ocr_pdf returns False
OcrRun ==
    /\ pc = "ocr_run"
    /\ \/ /\ fs' = Put(fs, OcrTemp(final_path),
                        File(OcrPages(fs[final_path].pages), "ocr", now, now))
          /\ pc' = "ocr_move"
          /\ UNCHANGED << exc, result, log_file >>
       \/ /\ \E e \in ErrTexts : exc' = Some(e)
          /\ fs' = cleanup_temp(fs, OcrTemp(final_path))
          /\ OcrReturn(FALSE)
    /\ now' = now + 1
    /\ UNCHANGED << cfg, pdf, doc, text_hits, link_hits, changed, times, ret,
                    new_path, did_rename, attempt, orig, renvars, mvars >>

\* get_file_times, shutil.move(temp_output, pdf_path), restore_times, return True;
\* a move that raises is caught like above
OcrMove ==
    /\ pc = "ocr_move"
    /\ \/ /\ \E utime_ok \in BOOLEAN :
                LET t     == get_file_times(fs, final_path)
                    moved == Del(Put(fs, final_path, fs[OcrTemp(final_path)]),
                                 OcrTemp(final_path))
                IN  /\ fs' = IF utime_ok THEN restore_times(moved, final_path, t)
                                ELSE moved
                    /\ times' = t
          /\ OcrReturn(TRUE)
          /\ UNCHANGED exc
       \/ /\ \E e \in ErrTexts : exc' = Some(e)
          /\ fs' = cleanup_temp(fs, OcrTemp(final_path))
          /\ OcrReturn(FALSE)
          /\ UNCHANGED times
    /\ UNCHANGED << now, cfg, pdf, doc, text_hits, link_hits, changed, ret, new_path,
                    did_rename, attempt, orig, renvars, mvars >>

\* "if notebooklm_notebook and not dry_run": upload_to_notebooklm copies the file
\* to the staging directory (shutil.copy2 keeps the times) and returns True, or
\* catches an exception and returns False
Upload ==
    /\ pc = "upload"
    /\ IF opts.notebook # NoneV /\ ~cfg.dry_run
       THEN \/ /\ final_path \in DOMAIN fs
               /\ staging' = Put(staging, Name(final_path), fs[final_path])
               /\ result' = Some([result.val EXCEPT !.uploaded = 1])
               /\ log_file' = log_event(log_file, logger, "upload", final_path)
               /\ UNCHANGED exc
            \/ /\ \E e \in ErrTexts : exc' = Some(e)
               /\ log_file' = log_event(log_file, logger, "upload", final_path)
               /\ UNCHANGED << staging, result >>
       ELSE UNCHANGED << staging, result, log_file, exc >>
    /\ pc' = "mark"
    /\ UNCHANGED << fs, now, cfg, pdf, doc, text_hits, link_hits, changed, times, ret,
                    new_path, did_rename, attempt, orig, renvars, dvars, logger,
                    resume_file >>

\* the resume file when it cannot be parsed (a write that stopped midway)
Corrupt == [tag |-> "Corrupt"]

\* mutant: the new path replaces the set
mark_processed_only(processed_files, pdf_path) == { Absolute(pdf_path) }

\* ProcessLogger.mark_processed: self.processed_files.add(str(pdf_path.absolute()))
mark_processed(processed_files, pdf_path) == processed_files \cup { Absolute(pdf_path) }

\* "if logger and not dry_run: logger.mark_processed(new_path)"; return result.
\* The resume file is rewritten in full; a write that raises is swallowed and
\* leaves the file as it was (open failed) or cut short.
MarkProcessed ==
    /\ pc = "mark"
    /\ IF logger # NoneV /\ ~cfg.dry_run
       THEN LET pf == mark_processed(logger.val.processed_files, final_path)
            IN  /\ logger' = Some([logger.val EXCEPT !.processed_files = pf])
                /\ \/ resume_file' = Some(pf)
                   \/ resume_file' = resume_file
                   \/ resume_file' = Corrupt
       ELSE UNCHANGED << logger, resume_file >>
    /\ pc' = "done"
    /\ UNCHANGED << fs, now, cfg, pdf, orig, fvars, log_file, dvars, staging >>

-----------------------------------------------------------------------------
(* process_single_pdf, enhanced variant: one candidate through every stage, *)
(* in a directory that can hold a second PDF                                *)

ScannedPage == [links |-> << >>, spans |-> << >>]

SingleNames == { "scan.pdf", "_OceanofPDFs.com_Gatsby_-_Fitzgerald.pdf" }

SingleOpts ==
    [no_progress : {FALSE}, enable_ocr : BOOLEAN, notebook : {NoneV, Some("nb")},
     log_dir : {NoneV}]

InitSingle ==
    /\ \E name \in SingleNames, pages \in OnePageDocs \cup { << ScannedPage >> },
          stray \in BOOLEAN, second \in BOOLEAN :
          LET d0 == ( name :> File(pages, "orig", 2, 1) )
              d1 == IF stray THEN Put(d0, TempPath(name), File(<< >>, "stray", 1, 1)) ELSE d0
              d2 == IF second
                    THEN Put(d1, OcrTemp(target_name(name)),
                             File(<< [links |-> << >>, spans |-> << "Chapter 1" >>] >>,
                                  "orig", 2, 1))
                    ELSE d1
          IN  /\ pdf = name
              /\ fs = d2
              /\ logger \in { NoneV, Some([processed_files |-> {}]),
                              Some([processed_files |-> { Absolute(name) }]) }
    /\ orig = fs
    /\ now = 3
    /\ cfg \in Flags
    /\ pc = "start"
    /\ Idle
    /\ run = 1 /\ variant = "enhanced" /\ tqdm = TRUE /\ argv = << >>
    /\ opts \in SingleOpts
    /\ mpc = "file" /\ status = NoneV /\ paths = << >> /\ ABORT_SCAN = FALSE
    /\ cursor = NoCursor /\ local_pdfs = << >> /\ cloud_pdfs = << >> /\ todo = << >>
    /\ count = ZeroCount /\ errors = EmptyMap /\ handled = << >> /\ yielded = << >>
    /\ resume_file = NoneV /\ staging = EmptyMap
    /\ log_file = << >>

NextSingle ==
    \/ Next
    \/ ResumeSkip \/ OcrSkip \/ OcrOpen \/ OcrRun \/ OcrMove \/ Upload \/ MarkProcessed

SpecSingle == InitSingle /\ [][NextSingle]_vars

-----------------------------------------------------------------------------
(* main: the command line                                                  *)

\* the directories of a tree: every proper ancestor of an existing file
RECURSIVE Ancestors(_)
Ancestors(path) ==
    IF Parent(path) = "" THEN {} ELSE { Parent(path) } \cup Ancestors(Parent(path))

AllDirs(dir) == UNION { Ancestors(k) : k \in DOMAIN dir }

\* Path.is_file, Path.is_dir, Path.exists
is_file(dir, path) == path \in DOMAIN dir
is_dir(dir, path) == path \in AllDirs(dir)
exists(dir, path) == is_file(dir, path) \/ is_dir(dir, path)

\* one os.walk step: the file names and the sub-directories of a directory
FilesIn(dir, d) == { Name(k) : k \in { f \in DOMAIN dir : Parent(f) = d } }
SubDirs(dir, d) == { x \in AllDirs(dir) : Parent(x) = d }

\* every order in which a listing can return the elements of a set
Orders(S) ==
    { sq \in [1..Cardinality(S) -> S] : \A i, j \in 1..Cardinality(S) : sq[i] = sq[j] => i = j }

\* s.strip(chars)
RECURSIVE StripChars(_, _)
StripChars(s, chars) ==
    IF s # "" /\ Char(s, 1) \in chars THEN StripChars(SubSeq(s, 2, Len(s)), chars)
    ELSE IF s # "" /\ Char(s, Len(s)) \in chars THEN StripChars(SubSeq(s, 1, Len(s) - 1), chars)
    ELSE s

HOME == "/home/u"

\* Path.expanduser
expanduser(path) ==
    IF path = "~" THEN HOME
    ELSE IF StartsWith(path, "~/") THEN HOME \o SubSeq(path, 2, Len(path))
    ELSE path

\* Path(arg.strip('"\'').strip()).expanduser()
path_of_arg(arg) == expanduser(Strip(StripChars(arg, { "\"", "'" })))

is_flag(arg) == StartsWith(arg, "--")

\* the base variant's argument loop: flags into a set, existing paths into a list
RECURSIVE parse_base(_, _, _, _)
parse_base(args, dir, found, flags) ==
    IF args = << >> THEN [err |-> FALSE, paths |-> found, flags |-> flags]
    ELSE LET arg == Head(args)
         IN  IF is_flag(arg)
             THEN parse_base(Tail(args), dir, found, Put(flags, arg, Some("")))
             ELSE IF exists(dir, path_of_arg(arg))
                  THEN parse_base(Tail(args), dir, Append(found, path_of_arg(arg)), flags)
                  ELSE parse_base(Tail(args), dir, found, flags)

VALUE_FLAGS == { "--log", "--notebooklm" }

\* the enhanced variant's argument loop: --log and --notebooklm take a value
RECURSIVE parse_enhanced(_, _, _, _)
parse_enhanced(args, dir, found, flags) ==
    IF args = << >> THEN [err |-> FALSE, paths |-> found, flags |-> flags]
    ELSE LET arg == Head(args)
         IN  IF is_flag(arg)
             THEN IF arg \in VALUE_FLAGS
                  THEN IF Len(args) >= 2 /\ ~is_flag(args[2])
                       THEN parse_enhanced(Tail(Tail(args)), dir, found,
                                           Put(flags, arg, Some(args[2])))
                       ELSE [err |-> TRUE, paths |-> found, flags |-> flags]
                  ELSE parse_enhanced(Tail(args), dir, found, Put(flags, arg, Some("")))
             ELSE IF exists(dir, path_of_arg(arg))
                  THEN parse_enhanced(Tail(args), dir, Append(found, path_of_arg(arg)), flags)
                  ELSE parse_enhanced(Tail(args), dir, found, flags)

\* args.get(flag)
flag_value(flags, flag) == IF flag \in DOMAIN flags THEN flags[flag] ELSE NoneV

\* "if no_progress or not tqdm": streaming mode, else standard mode
Streaming == opts.no_progress \/ ~tqdm

\* main up to the extraction of the settings: usage errors return 1
ParseArgs ==
    /\ mpc = "parse"
    /\ LET r == IF variant = "enhanced" THEN parse_enhanced(argv, fs, << >>, EmptyMap)
                ELSE parse_base(argv, fs, << >>, EmptyMap)
       IN  IF argv = << >> \/ r.err \/ r.paths = << >>
           THEN /\ status' = Some([code |-> 1, how |-> "usage"])
                /\ mpc' = "exit"
                /\ UNCHANGED << cfg, opts, paths >>
           ELSE /\ paths' = r.paths
                /\ cfg' = [dry_run    |-> "--dry-run" \in DOMAIN r.flags,
                           links_only |-> "--links-only" \in DOMAIN r.flags,
                           no_rename  |-> "--no-rename" \in DOMAIN r.flags]
                /\ opts' = IF variant = "enhanced"
                           THEN [no_progress |-> "--no-progress" \in DOMAIN r.flags,
                                 enable_ocr  |-> "--ocrmypdf" \in DOMAIN r.flags,
                                 notebook    |-> flag_value(r.flags, "--notebooklm"),
                                 log_dir     |-> flag_value(r.flags, "--log")]
                           ELSE [NoOpts EXCEPT
                                    !.no_progress = "--no-progress" \in DOMAIN r.flags]
                /\ mpc' = "logger"
                /\ UNCHANGED status
    /\ orig' = fs
    /\ UNCHANGED << fs, now, pdf, pc, fvars, log_file, run, variant, tqdm, argv,
                    ABORT_SCAN, cursor, local_pdfs, cloud_pdfs, todo, count, errors,
                    handled, yielded, logger, resume_file, staging >>

\* ProcessLogger._load_processed_files: the paths of the resume file, nothing when
\* the file is missing or cannot be parsed
load_processed_files(file) ==
    IF file = NoneV \/ file = Corrupt THEN {} ELSE file.val

\* "logger = ProcessLogger(log_dir) if log_dir else None", the counters, the mode
LoggerInit ==
    /\ mpc = "logger"
    /\ logger' = IF opts.log_dir = NoneV THEN NoneV
                 ELSE Some([processed_files |-> load_processed_files(resume_file)])
    /\ count' = ZeroCount
    /\ errors' = EmptyMap
    /\ mpc' = IF Streaming THEN "stream" ELSE "collect"
    /\ UNCHANGED << fs, now, cfg, pdf, pc, orig, fvars, log_file, run, variant, tqdm,
                    argv, opts, status, paths, ABORT_SCAN, cursor, local_pdfs,
                    cloud_pdfs, todo, handled, yielded, resume_file, staging >>

\* the CTRL-Q hook of setup_abort_handler, called from the keyboard thread
on_abort ==
    /\ variant = "enhanced"
    /\ mpc \in { "stream", "collect", "loop", "file" }
    /\ ~ABORT_SCAN
    /\ ABORT_SCAN' = TRUE
    /\ UNCHANGED << fs, now, cfg, pdf, pc, orig, fvars, log_file, run, variant, tqdm,
                    argv, opts, mpc, status, paths, cursor, local_pdfs, cloud_pdfs,
                    todo, count, errors, handled, yielded, logger, resume_file,
                    staging >>

-----------------------------------------------------------------------------
(* Discovery: collect_pdfs_streaming and collect_pdfs_all, one step per     *)
(* target, per directory of os.walk and per file name                      *)

CLOUD_PATTERNS ==
    { "onedrive", "dropbox", "google drive", "crossdevice", "icloud", "box sync",
      "sync", "cloud" }

\* mutant: the patterns are looked for in the path as written
is_cloud_path_cased(path) == \E pattern \in CLOUD_PATTERNS : Contains(path, pattern)

\* is_cloud_path: any(pattern in str(path).lower() for pattern in CLOUD_PATTERNS)
is_cloud_path(path) == \E pattern \in CLOUD_PATTERNS : Contains(Lower(path), pattern)

\* what discovery and the loops of main never touch
scan_frame == << fs, now, cfg, log_file, run, variant, tqdm, argv, opts, status, paths,
                ABORT_SCAN, todo, count, errors, handled, logger, resume_file,
                staging >>

\* the first statements of process_single_pdf for a candidate
StartFile(c) ==
    /\ pdf' = c
    /\ orig' = fs
    /\ pc' = "start"
    /\ mpc' = "file"
    /\ doc' = NoneV /\ text_hits' = 0 /\ link_hits' = 0 /\ changed' = FALSE
    /\ times' = NoneV /\ exc' = NoneV /\ ret' = NoneV /\ new_path' = NoneV
    /\ did_rename' = FALSE /\ attempt' = 0 /\ result' = NoneV
    /\ rename_calls' = << >> /\ slept' = 0

\* a candidate leaves discovery: streaming mode yields it to the loop body of main,
\* standard mode appends it to the cloud or to the local list
Emit(c) ==
    /\ yielded' = Append(yielded, [run |-> run, path |-> c, aborted |-> ABORT_SCAN])
    /\ IF mpc = "stream"
       THEN /\ StartFile(c)
            /\ UNCHANGED << local_pdfs, cloud_pdfs >>
       ELSE /\ IF is_cloud_path(c)
               THEN cloud_pdfs' = Append(cloud_pdfs, c) /\ UNCHANGED local_pdfs
               ELSE local_pdfs' = Append(local_pdfs, c) /\ UNCHANGED cloud_pdfs
            /\ UNCHANGED << pdf, orig, pc, mpc, fvars >>

NoEmit == UNCHANGED << yielded, local_pdfs, cloud_pdfs, pdf, orig, pc, mpc, fvars >>

\* "for target in ...": a PDF file is a candidate itself, a directory starts a walk;
\* collect_pdfs_all looks at ABORT_SCAN first, collect_pdfs_streaming does not
NextTarget ==
    /\ mpc \in { "stream", "collect" }
    /\ ~cursor.walking /\ cursor.ti <= Len(paths)
    /\ LET target == paths[cursor.ti]
       IN  IF mpc = "collect" /\ ABORT_SCAN
           THEN /\ cursor' = [cursor EXCEPT !.ti = Len(paths) + 1]
                /\ NoEmit
           ELSE IF is_file(fs, target) /\ Lower(Suffix(target)) = ".pdf"
           THEN /\ cursor' = [cursor EXCEPT !.ti = @ + 1]
                /\ Emit(target)
           ELSE IF is_dir(fs, target)
           THEN /\ cursor' = [cursor EXCEPT !.walking = TRUE, !.dirs = << target >>,
                                              !.files = {}]
                /\ NoEmit
           ELSE /\ cursor' = [cursor EXCEPT !.ti = @ + 1]
                /\ NoEmit
    /\ UNCHANGED scan_frame

\* "for root, dirs, files in os.walk(target)": the next directory, top-down; the
\* enhanced variant leaves the walk when ABORT_SCAN is set
EnterDir ==
    /\ mpc \in { "stream", "collect" }
    /\ cursor.walking /\ cursor.files = {} /\ cursor.dirs # << >>
    /\ IF variant = "enhanced" /\ ABORT_SCAN
       THEN cursor' = [cursor EXCEPT !.dirs = << >>]
       ELSE \E sub \in Orders(SubDirs(fs, Head(cursor.dirs))) :
               cursor' = [cursor EXCEPT !.cur = Head(cursor.dirs),
                                        !.dirs = sub \o Tail(cursor.dirs),
                                        !.files = FilesIn(fs, Head(cursor.dirs))]
    /\ NoEmit
    /\ UNCHANGED scan_frame

\* "for file in files": the enhanced variant leaves the loop when ABORT_SCAN is
\* set; a name that ends with .pdf in any letter case is a candidate
ScanFile ==
    /\ mpc \in { "stream", "collect" }
    /\ cursor.walking /\ cursor.files # {}
    /\ IF variant = "enhanced" /\ ABORT_SCAN
       THEN /\ cursor' = [cursor EXCEPT !.files = {}]
            /\ NoEmit
       ELSE \E file \in cursor.files :
               /\ cursor' = [cursor EXCEPT !.files = @ \ { file }]
               /\ IF EndsWith(Lower(file), ".pdf")
                  THEN Emit(Join(cursor.cur, file))
                  ELSE NoEmit
    /\ UNCHANGED scan_frame

\* os.walk is exhausted: on to the next target
WalkDone ==
    /\ mpc \in { "stream", "collect" }
    /\ cursor.walking /\ cursor.files = {} /\ cursor.dirs = << >>
    /\ cursor' = [cursor EXCEPT !.walking = FALSE, !.ti = @ + 1]
    /\ NoEmit
    /\ UNCHANGED scan_frame

\* collect_pdfs_all returns: all_pdfs = local_pdfs + cloud_pdfs
CollectDone ==
    /\ mpc = "collect"
    /\ ~cursor.walking /\ cursor.ti > Len(paths)
    /\ todo' = local_pdfs \o cloud_pdfs
    /\ mpc' = "loop"
    /\ UNCHANGED << fs, now, cfg, pdf, pc, orig, fvars, log_file, run, variant, tqdm,
                    argv, opts, status, paths, ABORT_SCAN, cursor, local_pdfs,
                    cloud_pdfs, count, errors, handled, yielded, logger, resume_file,
                    staging >>

\* standard mode: "for pdf in iterator: result = process_single_pdf(pdf, ...)"
NextFile ==
    /\ mpc = "loop" /\ todo # << >>
    /\ StartFile(Head(todo))
    /\ todo' = Tail(todo)
    /\ UNCHANGED << fs, now, cfg, log_file, run, variant, tqdm, argv, opts, status,
                    paths, ABORT_SCAN, cursor, local_pdfs, cloud_pdfs, count, errors,
                    handled, yielded, logger, resume_file, staging >>

\* mutant: every record that has the key 'failed' counts as a failure
tally_by_key(r) ==
    IF "failed" \in DOMAIN r
    THEN [failed |-> 1, skipped |-> 0, cleaned |-> 0, renamed |-> 0,
          ocr |-> 0, uploaded |-> 0]
    ELSE [failed |-> 0, skipped |-> IF "skipped" \in DOMAIN r THEN r.skipped ELSE 0,
          cleaned |-> 0, renamed |-> 0, ocr |-> 0, uploaded |-> 0]

\* "if 'failed' in result: ... elif 'skipped' in result: ... else: ...": what one
\* result record adds to the counters
tally(r) ==
    IF "failed" \in DOMAIN r
    THEN [failed |-> r.failed, skipped |-> 0, cleaned |-> 0, renamed |-> 0,
          ocr |-> 0, uploaded |-> 0]
    ELSE IF "skipped" \in DOMAIN r
    THEN [failed |-> 0, skipped |-> r.skipped, cleaned |-> 0, renamed |-> 0,
          ocr |-> 0, uploaded |-> 0]
    ELSE [failed |-> 0, skipped |-> 0,
          cleaned |-> IF "cleaned" \in DOMAIN r THEN r.cleaned ELSE 0,
          renamed |-> IF "renamed" \in DOMAIN r THEN r.renamed ELSE 0,
          ocr |-> IF "ocr" \in DOMAIN r THEN r.ocr ELSE 0,
          uploaded |-> IF "uploaded" \in DOMAIN r THEN r.uploaded ELSE 0]

\* the statistics update of main after process_single_pdf has returned
Tally ==
    /\ mpc = "file" /\ pc = "done"
    /\ LET r == result.val
           t == tally(r)
       IN  /\ count' = [processed |-> IF Streaming THEN count.processed + 1
                                      ELSE count.processed,
                        cleaned   |-> count.cleaned + t.cleaned,
                        renamed   |-> count.renamed + t.renamed,
                        failed    |-> count.failed + t.failed,
                        skipped   |-> count.skipped + t.skipped,
                        ocr       |-> count.ocr + t.ocr,
                        uploaded  |-> count.uploaded + t.uploaded]
           /\ errors' = IF "failed" \in DOMAIN r /\ "error" \in DOMAIN r
                        THEN Put(errors, r.error,
                                 Append(IF r.error \in DOMAIN errors
                                        THEN errors[r.error] ELSE << >>, r.filename))
                        ELSE errors
           /\ handled' = Append(handled, [run |-> run, pdf |-> pdf, result |-> r])
    /\ pc' = "idle"
    /\ mpc' = IF Streaming THEN "stream" ELSE "loop"
    /\ UNCHANGED << fs, now, cfg, pdf, orig, fvars, log_file, run, variant, tqdm, argv,
                    opts, status, paths, ABORT_SCAN, cursor, local_pdfs, cloud_pdfs,
                    todo, yielded, logger, resume_file, staging >>

\* the loop is over: total_processed, the summary, "return 0 if not failed else 2"
Summary ==
    /\ \/ mpc = "stream" /\ ~cursor.walking /\ cursor.ti > Len(paths)
       \/ mpc = "loop" /\ todo = << >>
    /\ count' = IF Streaming THEN count
                ELSE [count EXCEPT !.processed = Len(local_pdfs) + Len(cloud_pdfs)]
    /\ status' = Some([code |-> IF count.failed = 0 THEN 0 ELSE 2, how |-> "return"])
    /\ mpc' = "exit"
    /\ UNCHANGED << fs, now, cfg, pdf, pc, orig, fvars, log_file, run, variant, tqdm,
                    argv, opts, paths, ABORT_SCAN, cursor, local_pdfs, cloud_pdfs,
                    todo, errors, handled, yielded, logger, resume_file, staging >>

-----------------------------------------------------------------------------
(* The whole program: both variants started on a small library             *)

MaxRuns == 2

WatermarkedPdf == "lib/_OceanofPDFs.com_a_-_b.pdf"
CloudPdf == "lib/OneDrive/scan.pdf"
RootPdf == "x.PDF"

\* a library with a watermarked book, a scanned document without a text layer in
\* a cloud-synced folder, a file that is no PDF, and a clean book next to it
Library ==
    ( WatermarkedPdf :>
          File(<< [links |-> << >>, spans |-> << "Get OceanofPDF.com", "The End" >>] >>,
               "orig", 2, 1) ) @@
    ( CloudPdf :> File(<< [links |-> << >>, spans |-> << >>] >>, "orig", 2, 1) ) @@
    ( "lib/notes.txt" :> File(<< >>, "other", 1, 1) ) @@
    ( RootPdf :> File(<< [links |-> << "http://a.b/c" >>, spans |-> << "Chapter 1" >>] >>,
                      "orig", 2, 1) )

\* sys.argv[1:]
CmdLines ==
    { << >>,
      << "missing" >>,
      << "--log" >>,
      << "lib", "missing" >>,
      << "--no-progress", "lib", RootPdf >>,
      << "--dry-run", "\"lib\"" >>,
      << "--no-rename", CloudPdf, RootPdf >>,
      << "--no-rename", RootPdf, RootPdf >>,
      << WatermarkedPdf, "lib" >>,
      << "--log", "logs", "--ocrmypdf", "--notebooklm", "nb", "lib" >> }

\* the program before main has looked at its arguments
MainStart ==
    /\ orig = fs
    /\ now = 3
    /\ cfg = [dry_run |-> FALSE, links_only |-> FALSE, no_rename |-> FALSE]
    /\ pdf = ""
    /\ pc = "idle"
    /\ Idle
    /\ run = 1
    /\ opts = NoOpts
    /\ mpc = "parse" /\ status = NoneV /\ paths = << >> /\ ABORT_SCAN = FALSE
    /\ cursor = NoCursor /\ local_pdfs = << >> /\ cloud_pdfs = << >> /\ todo = << >>
    /\ count = ZeroCount /\ errors = EmptyMap /\ handled = << >> /\ yielded = << >>
    /\ logger = NoneV /\ staging = EmptyMap
    /\ log_file = << >>

\* the resume file an earlier run has left in the log directory, if any
OldResumeFiles == { NoneV, Some({ Absolute(CloudPdf) }) }

InitMain ==
    /\ fs = Library
    /\ resume_file \in OldResumeFiles
    /\ variant \in { "base", "enhanced" }
    /\ tqdm \in BOOLEAN
    /\ argv \in CmdLines
    /\ MainStart

NextMain ==
    \/ ParseArgs \/ LoggerInit \/ on_abort
    \/ NextTarget \/ EnterDir \/ ScanFile \/ WalkDone \/ CollectDone \/ NextFile
    \/ ResumeSkip
    \/ Begin \/ Open \/ LinkPass \/ TextPass \/ DryRunReturn \/ Save \/ SkipSave
    \/ Close \/ Move \/ Restore \/ Except
    \/ FailReturn \/ SkipRename \/ RenameDecide \/ RenameAttempt \/ Report
    \/ OcrSkip \/ OcrOpen \/ OcrRun \/ OcrMove \/ Upload \/ MarkProcessed
    \/ Tally \/ Summary

SpecMain == InitMain /\ [][NextMain]_vars

-----------------------------------------------------------------------------
(* The enhanced variant run again and again over the same log directory    *)

\* a library of one scanned book whose only text is the watermark, under a
\* watermarked name, and a file that is no PDF
SmallLibrary ==
    ( WatermarkedPdf :>
          File(<< [links |-> << >>, spans |-> << "Get OceanofPDF.com" >>] >>, "orig", 2, 1) ) @@
    ( "lib/notes.txt" :> Library["lib/notes.txt"] )

ResumeCmdLines ==
    { << "--log", "logs", "--ocrmypdf", "lib" >>,
      << "--log", "logs", "--no-rename", "lib" >>,
      << "--log", "logs", "--dry-run", "lib" >> }

\* a book an earlier run over the log directory has processed; it has been
\* moved away since
OldPdf == "/home/u/lib/old.pdf"

InitResume ==
    /\ fs = SmallLibrary
    /\ resume_file = Some({ OldPdf })
    /\ variant = "enhanced"
    /\ tqdm \in BOOLEAN
    /\ argv \in ResumeCmdLines
    /\ MainStart

\* the same command line is run again after the program has returned
NewRun ==
    /\ mpc = "exit" /\ run < MaxRuns
    /\ status.val.how = "return" /\ logger # NoneV
    /\ run' = run + 1
    /\ mpc' = "parse" /\ status' = NoneV /\ paths' = << >> /\ ABORT_SCAN' = FALSE
    /\ cursor' = NoCursor /\ local_pdfs' = << >> /\ cloud_pdfs' = << >> /\ todo' = << >>
    /\ count' = ZeroCount /\ errors' = EmptyMap
    /\ logger' = NoneV
    /\ opts' = NoOpts
    /\ pc' = "idle"
    /\ doc' = NoneV /\ text_hits' = 0 /\ link_hits' = 0 /\ changed' = FALSE
    /\ times' = NoneV /\ exc' = NoneV /\ ret' = NoneV /\ new_path' = NoneV
    /\ did_rename' = FALSE /\ attempt' = 0 /\ result' = NoneV
    /\ rename_calls' = << >> /\ slept' = 0
    /\ UNCHANGED << fs, now, cfg, pdf, orig, log_file, variant, tqdm, argv, handled,
                    yielded, resume_file, staging >>

NextResume == NextMain \/ NewRun

SpecResume == InitResume /\ [][NextResume]_vars

-----------------------------------------------------------------------------
(* Properties                                                              *)

\* a URI that contains the watermark domain, compared case-insensitively
WatermarkUri(uri) == Contains(Lower(uri), Lower(URI_MATCH))

\* a text that contains the watermark phrase in any letter case, with any
\* whitespace between adjacent characters
ContainsPhrase(txt) == SpacedSearch(Lower(PHRASE), txt)

RECURSIVE CountWatermarkLinks(_)
CountWatermarkLinks(pages) ==
    IF Len(pages) = 0 THEN 0
    ELSE CountSeq(Head(pages).links, WatermarkUri) + CountWatermarkLinks(Tail(pages))

RECURSIVE CountPhraseSpans(_)
CountPhraseSpans(pages) ==
    IF Len(pages) = 0 THEN 0
    ELSE CountSeq(Head(pages).spans, ContainsPhrase) + CountPhraseSpans(Tail(pages))

\* C1: once pass 1 of process_pdf is over, every page of the document has lost
\* exactly its links whose URI contains the watermark domain (in any letter case),
\* and link_hits is the number of those links over all pages.
C1_LinksRemoved ==
    pc \in { "text", "decide" } =>
        /\ \A i \in 1..Len(doc.val) :
              doc.val[i].links =
                  SelectSeq(orig[pdf].pages[i].links, LAMBDA u : ~WatermarkUri(u))
        /\ link_hits = CountWatermarkLinks(orig[pdf].pages)

\* C2: once pass 2 of process_pdf is over, every span that contains the watermark
\* phrase (any case, any spacing) was matched by TEXT_PATTERN on a page that passed
\* the pre-check, was redacted and counted, and no other span was redacted.
C2_SpansRedacted ==
    (pc = "decide" /\ ~cfg.links_only) =>
        /\ \A i \in 1..Len(doc.val) :
              /\ doc.val[i].spans =
                     SelectSeq(orig[pdf].pages[i].spans, LAMBDA t : ~ContainsPhrase(t))
              /\ \A j \in 1..Len(orig[pdf].pages[i].spans) :
                    ContainsPhrase(orig[pdf].pages[i].spans[j]) =>
                        /\ TEXT_PATTERN_search(orig[pdf].pages[i].spans[j])
                        /\ page_might_contain_phrase(orig[pdf].pages[i])
        /\ text_hits = CountPhraseSpans(orig[pdf].pages)

C4_DryRunFrame == cfg.dry_run => fs = orig

ScenarioAName == "_OceanofPDFs.com_Gatsby_-_Fitzgerald.pdf"

ScenarioAPage ==
    [links |-> << "https://oceanofpdfs.com/x" >>, spans |-> << "OceanofPDFs.com" >>]

\* C5: scenario A.  The file "_OceanofPDFs.com_Gatsby_-_Fitzgerald.pdf" with the
\* watermark text and a watermark link on its one page, default flags, nothing
\* raising: it ends named "Fitzgerald - Gatsby.pdf", without the text and the link,
\* with the result record {cleaned: 1, renamed: 1, failed: 0}.
C5_ScenarioA ==
    ( /\ pc = "done"
      /\ pdf = ScenarioAName
      /\ DOMAIN orig = { pdf }
      /\ orig[pdf].pages = << ScenarioAPage >>
      /\ cfg = [dry_run |-> FALSE, links_only |-> FALSE, no_rename |-> FALSE]
      /\ exc = NoneV
      /\ result.val.failed = 0 ) =>
        /\ result.val = [cleaned |-> 1, renamed |-> 1, failed |-> 0]
        /\ DOMAIN fs = { "Fitzgerald - Gatsby.pdf" }
        /\ \A i \in 1..Len(fs["Fitzgerald - Gatsby.pdf"].pages) :
              LET page == fs["Fitzgerald - Gatsby.pdf"].pages[i]
              IN  /\ \A j \in 1..Len(page.links) : ~WatermarkUri(page.links[j])
                  /\ \A j \in 1..Len(page.spans) : ~ContainsPhrase(page.spans[j])

NoIllegal(s) == \A i \in 1..Len(s) : Char(s, i) \notin ILLEGAL_CHARS

\* the places where a stem "_OceanofPDFs.com_<T>_-_<A>" can be cut into T and A
SplitPlaces(stem) ==
    { k \in (Len(PREFIX) + 1)..(Len(stem) - Len(SEPARATOR) + 1) :
         SubSeq(stem, k, k + Len(SEPARATOR) - 1) = SEPARATOR }

TitleAt(stem, k) == SubSeq(stem, Len(PREFIX) + 1, k - 1)
AuthorAt(stem, k) == SubSeq(stem, k + Len(SEPARATOR), Len(stem))

\* C6 as stated: "_OceanofPDFs.com_<T>_-_<A>.pdf" with T and A (not empty, no
\* space at their ends) free of illegal characters and "<A> - <T>.pdf" free
\* becomes "<A> - <T>.pdf", T and A unchanged.
C6_Original ==
    (pc = "computed" /\ StartsWith(Stem(pdf), PREFIX)) =>
        \A k \in SplitPlaces(Stem(pdf)) :
           LET T == TitleAt(Stem(pdf), k)
               A == AuthorAt(Stem(pdf), k)
           IN  ( /\ NoIllegal(T) /\ NoIllegal(A)
                 /\ T # "" /\ A # "" /\ Strip(T) = T /\ Strip(A) = A
                 /\ (A \o " - " \o T \o ".pdf") \notin DOMAIN fs )
               => new_path = Some(A \o " - " \o T \o ".pdf")

\* C6 amended: with T the text before the first "_-_", the stem not ending in the
\* Z-Library suffix, and T' and A' (T and A with each run of underscores turned
\* into a space, whitespace runs collapsed, ends trimmed) both non-empty, the
\* result is "<A'> - <T'>.pdf" when that name is free.
C6_PrefixReformat ==
    (pc = "computed" /\ StartsWith(Stem(pdf), PREFIX)) =>
        \A k \in SplitPlaces(Stem(pdf)) :
           LET T == TitleAt(Stem(pdf), k)
               A == AuthorAt(Stem(pdf), k)
               wanted == NormalizeName(A) \o " - " \o NormalizeName(T) \o ".pdf"
           IN  ( /\ NoIllegal(T) /\ NoIllegal(A)
                 /\ \A j \in SplitPlaces(Stem(pdf)) : k <= j
                 /\ ~EndsWith(Stem(pdf), ZLIB_SUFFIX)
                 /\ NormalizeName(T) # "" /\ NormalizeName(A) # ""
                 /\ wanted \notin DOMAIN fs )
               => new_path = Some(wanted)

\* C6 witness: a title and an author with underscores have been reformatted
C6_Witness ==
    /\ pc = "computed"
    /\ pdf = "_OceanofPDFs.com_The_Great_Gatsby_-_F_Scott_Fitzgerald.pdf"
    /\ new_path = Some("F Scott Fitzgerald - The Great Gatsby.pdf")

\* a stem that needs no tidying: not empty, single spaces only, none at the ends
Tidy(s) ==
    /\ s # ""
    /\ \A i \in 1..Len(s) : IsSpace(Char(s, i)) => Char(s, i) = " "
    /\ Char(s, 1) # " " /\ Char(s, Len(s)) # " "
    /\ ~Contains(s, "  ")

\* C7 as stated: a stem ending in "_ (Z-Library)" loses exactly that suffix and
\* nothing else changes.
C7_Original ==
    (pc = "computed" /\ EndsWith(Stem(pdf), ZLIB_SUFFIX)) =>
        new_path = Some(SubSeq(Stem(pdf), 1, Len(Stem(pdf)) - Len(ZLIB_SUFFIX)) \o ".pdf")

\* C7 amended: a stem ending in "_ (Z-Library)" loses exactly that one suffix and
\* nothing else changes, provided what remains is tidy, has no underscore (so no
\* prefix either) and its name is free; a second "_ (Z-Library)" before the
\* stripped one is kept (its underscore turned into a space).
C7_ZlibSuffix ==
    (pc = "computed" /\ EndsWith(Stem(pdf), ZLIB_SUFFIX)) =>
        LET rest == SubSeq(Stem(pdf), 1, Len(Stem(pdf)) - Len(ZLIB_SUFFIX))
        IN  /\ (Tidy(rest) /\ ~Contains(rest, "_") /\ (rest \o ".pdf") \notin DOMAIN fs)
                => new_path = Some(rest \o ".pdf")
            /\ (rest = "Book" \o ZLIB_SUFFIX /\ "Book (Z-Library).pdf" \notin DOMAIN fs)
                => new_path = Some("Book (Z-Library).pdf")

\* C7 witness: a tidy stem with the suffix has been renamed to the stem alone
C7_Witness ==
    /\ pc = "computed"
    /\ pdf = "a a" \o ZLIB_SUFFIX \o ".pdf"
    /\ new_path = Some("a a.pdf")

\* C8: an already normalized name (no prefix, no suffix, no repeated underscores
\* or spaces, tidy; single underscores allowed) is left alone.
C8_NoChange ==
    ( /\ pc = "computed"
      /\ Tidy(Stem(pdf))
      /\ ~StartsWith(Stem(pdf), PREFIX) /\ ~EndsWith(Stem(pdf), ZLIB_SUFFIX)
      /\ ~Contains(Stem(pdf), "__")
      /\ Char(Stem(pdf), 1) # "_" /\ Char(Stem(pdf), Len(Stem(pdf))) # "_"
      /\ ~Contains(Stem(pdf), "_ ") /\ ~Contains(Stem(pdf), " _") ) =>
        new_path = NoneV

\* the stem with the Z-Library suffix stripped starts with the prefix and what
\* follows the prefix holds no "_-_"
PrefixWithoutSeparator(stem) ==
    /\ StartsWith(StripZlib(stem), PREFIX)
    /\ ~Contains(SubSeq(StripZlib(stem), Len(PREFIX) + 1, Len(StripZlib(stem))), SEPARATOR)

\* C9 as stated: with the prefix but no separator, the name is computed from the
\* remainder after the prefix, so the prefix text is gone from the result.
C9_Original ==
    (pc = "computed" /\ PrefixWithoutSeparator(Stem(pdf))) =>
        LET remainder == SubSeq(StripZlib(Stem(pdf)), Len(PREFIX) + 1,
                                Len(StripZlib(Stem(pdf))))
        IN  new_path = Some(unique_path(NormalizeName(remainder) \o ".pdf", DOMAIN fs))

\* C9 amended: with the prefix but no separator, the stem keeps its prefix: the
\* name is computed from the whole stem (Z-Library suffix stripped) by the
\* underscore/whitespace normalization and the collision resolution, so the
\* result starts with "OceanofPDFs.com".
C9_PrefixKept ==
    (pc = "computed" /\ PrefixWithoutSeparator(Stem(pdf))) =>
        /\ new_path # NoneV
        /\ StartsWith(new_path.val, "OceanofPDFs.com")
        /\ new_path.val =
              unique_path(NormalizeName(StripZlib(Stem(pdf))) \o ".pdf", DOMAIN fs)

\* C9 witness: a prefixed stem without separator, renamed with its prefix kept
C9_Witness ==
    /\ pc = "computed"
    /\ pdf = "_OceanofPDFs.com_Book.pdf"
    /\ new_path = Some("OceanofPDFs.com Book (1).pdf")

\* C10: unique_path(p) never returns an existing path: it returns p when p does
\* not exist, otherwise "stem (i)" for the smallest i >= 1 whose candidate does not
\* exist, found after at most as many tries as there are files; and the name
\* compute_rename returns does not exist.
C10_UniquePath ==
    /\ pc = "uniqued" =>
          LET p == result.val.p
              r == result.val.path
          IN  /\ r \notin DOMAIN fs
              /\ p \notin DOMAIN fs => r = p
              /\ p \in DOMAIN fs =>
                    \E i \in 1..Cardinality(DOMAIN fs) :
                       /\ r = Candidate(p, i)
                       /\ \A j \in 1..(i - 1) : Candidate(p, j) \in DOMAIN fs
    /\ (pc = "computed" /\ new_path # NoneV) => new_path.val \notin DOMAIN fs

\* C10 witness: p, "p (1)" and "p (3)" exist and unique_path has returned "p (2)"
C10_Witness ==
    /\ pc = "uniqued"
    /\ result.val.p \in DOMAIN fs
    /\ Candidate(result.val.p, 1) \in DOMAIN fs
    /\ Candidate(result.val.p, 3) \in DOMAIN fs
    /\ result.val.path = Candidate(result.val.p, 2)

\* C13: a content transform that raised, whatever the text of the exception, or a
\* rename that raised ends process_single_pdf with failed = 1 and the error text, and
\* no later stage has run; the rename stage runs only after a transform that did not
\* raise.
C13_ShortCircuit ==
    /\ (pc \in { "attempt", "report" } \/ rename_calls # << >> \/ did_rename) =>
          exc = NoneV
    /\ (pc = "done" /\ exc # NoneV) =>
          /\ result.val.failed = 1
          /\ result.val.error = exc.val
    /\ (pc = "done" /\ rename_calls # << >>
                    /\ rename_calls[Len(rename_calls)] # "ok") =>
          /\ result.val.failed = 1
          /\ result.val.error = rename_calls[Len(rename_calls)]

\* an OSError text that names a transient condition of a cloud-synced folder
CloudPatternError(msg) ==
    Contains(Lower(msg), "cloud operation") \/ Contains(Lower(msg), "time-out")

\* the modelled OSError texts that name such a condition
CloudErrorTexts == { e \in OSErrorTexts : CloudPatternError(e) }

\* C17: rename_if_needed calls Path.rename at most RETRIES times; every call that is
\* followed by another one failed with a cloud-pattern OSError and was followed by a
\* sleep of one second; any other error, and a cloud-pattern error of the last
\* permitted call, ends the file with that error; a call that succeeds ends the loop
\* with (True, new_path); a dry run calls Path.rename never.
C17_RetryPolicy ==
    LET n == Len(rename_calls) IN
    /\ n <= RETRIES
    /\ cfg.dry_run => n = 0
    /\ \A i \in 1..(n - 1) : rename_calls[i] # "ok" /\ rename_calls[i] \in CloudErrorTexts
    /\ (pc = "attempt") =>
          /\ slept = n /\ n < RETRIES
          /\ n > 0 => rename_calls[n] \in CloudErrorTexts
    /\ (pc # "attempt" /\ n > 0) =>
          /\ slept = n - 1
          /\ rename_calls[n] = "ok" =>
                /\ did_rename /\ new_path # NoneV
                /\ pc \in { "report", "done" }
                /\ (pc = "done" => result.val.failed = 0)
          /\ rename_calls[n] # "ok" =>
                /\ rename_calls[n] \notin CloudErrorTexts \/ n = RETRIES
                /\ ~did_rename
                /\ pc = "done" /\ result.val.failed = 1
                /\ result.val.error = rename_calls[n]

\* C17 witness: two cloud time-outs, two sleeps, and the third call succeeded
C17_Witness ==
    /\ Len(rename_calls) = RETRIES
    /\ rename_calls[RETRIES] = "ok"
    /\ slept = RETRIES - 1
    /\ pc = "done"

\* C20: in a second run on the file left by a first run that did not fail and was no
\* dry run, process_pdf never writes: the directory stays as the first run left it
\* (bytes, times, no temp file), and a second run in which nothing raises finds no
\* text hit and no link hit and returns changed = False.
C20_Idempotent ==
    run = 2 =>
        /\ pc \in { "start", "open", "links", "text", "decide", "close", "move",
                     "restore", "except", "returned" } =>
              /\ fs = orig
              /\ TempPath(pdf) \notin DOMAIN fs
        /\ (pc \in { "decide", "close", "returned" } /\ exc = NoneV) =>
              text_hits = 0 /\ link_hits = 0
        /\ (pc = "returned" /\ exc = NoneV) => ret = Ret(FALSE, 0, 0, NoneV)

\* C20 witness: the first run has rewritten the file and the second has returned
C20_Witness ==
    /\ run = 2 /\ pc = "returned" /\ exc = NoneV
    /\ fs[pdf].form = "saved"


-----------------------------------------------------------------------------
(* The batch driver                                                        *)

\* the result records main has received in the current run
ResultsOfRun == SelectSeq(handled, LAMBDA h : h.run = run)

\* how many of them carry the value 1 in a field
Ones(field) ==
    Len(SelectSeq(ResultsOfRun,
                  LAMBDA h : field \in DOMAIN h.result /\ h.result[field] = 1))

\* C11: when main returns, the cleaned, renamed, ocr and uploaded counters equal
\* the number of files of the run whose result record has cleaned = 1,
\* renamed = 1, ocr = 1 and uploaded = 1
C11_Counters ==
    (mpc = "exit" /\ status.val.how = "return") =>
        /\ count.cleaned = Ones("cleaned")
        /\ count.renamed = Ones("renamed")
        /\ count.ocr = Ones("ocr")
        /\ count.uploaded = Ones("uploaded")

\* the stages after the rename of the enhanced process_single_pdf
LateStages == { "ocr", "ocr_run", "ocr_move", "upload", "mark" }

\* C14: a failure inside ocr_pdf or upload_to_notebooklm never leaves the function
\* as an exception, the result record of the file is not marked failed, and the
\* file is still marked processed when process_single_pdf returns
C14_BestEffort ==
    /\ pc # "crashed"
    /\ pc \in LateStages => result.val.failed = 0
    /\ (pc = "done" /\ "ocr" \in DOMAIN result.val /\ result.val.failed = 0) =>
          /\ "error" \notin DOMAIN result.val
          /\ (logger # NoneV /\ ~cfg.dry_run) =>
                Absolute(final_path) \in logger.val.processed_files

\* C12: main's exit status is 1 exactly on a usage error, and then no file has
\* been processed or modified; a path that does not exist is skipped and the
\* other paths are processed; otherwise the status is 2 when some file of the run
\* has a failure result and 0 when none has
C12_ExitStatus ==
    mpc = "exit" =>
        LET usage == \/ argv = << >>
                     \/ \A i \in 1..Len(argv) :
                           is_flag(argv[i]) \/ ~exists(orig, path_of_arg(argv[i]))
                     \/ /\ variant = "enhanced"
                        /\ \E i \in 1..Len(argv) :
                              /\ argv[i] \in VALUE_FLAGS
                              /\ (i = Len(argv) \/ is_flag(argv[i + 1]))
            failures == Len(SelectSeq(ResultsOfRun,
                                      LAMBDA h : "failed" \in DOMAIN h.result
                                                 /\ h.result.failed = 1))
        IN  /\ status.val.code = 1 <=> usage
            /\ usage => (fs = Library /\ ResultsOfRun = << >>)
            /\ ~usage => status.val.code = (IF failures > 0 THEN 2 ELSE 0)

-----------------------------------------------------------------------------
(* Resume                                                                  *)

\* the candidate handed to process_single_pdf is in the resume set
InResumeSet ==
    /\ logger # NoneV
    /\ (IF StartsWith(pdf, "/") THEN pdf ELSE CWD \o "/" \o pdf) \in logger.val.processed_files

\* C15: with logging enabled a candidate whose absolute path is in the resume set
\* is skipped: no stage of the pipeline runs for it, process_single_pdf returns
\* {skipped: 1}, and the files, the resume set, the resume file and the staging
\* directory are left as they were
C15_ResumeSkip ==
    /\ [](mpc = "file" /\ pc \notin { "start", "done" } => ~InResumeSet)
    /\ [][(mpc = "file" /\ pc = "start" /\ InResumeSet /\ pc' # pc) =>
             /\ pc' = "done"
             /\ result' = Some([skipped |-> 1])
             /\ fs' = fs /\ pdf' = pdf
             /\ logger' = logger /\ resume_file' = resume_file /\ staging' = staging]_vars

C15_Witness ==
    /\ pc = "done" /\ result = Some([skipped |-> 1])
    /\ InResumeSet
    /\ pdf \in DOMAIN fs /\ fs = orig

\* the paths a resume file lists; none when it is missing or cannot be read
Listed(file) == IF file = NoneV \/ file = Corrupt THEN {} ELSE file.val

\* C16 as stated: whenever a logger exists, the resume file lists exactly the
\* in-memory processed set
C16_Original == logger # NoneV => Listed(resume_file) = logger.val.processed_files

\* C16, amended: a logger starts with exactly the paths its resume file lists
\* (none when the file is missing or unreadable); within a run the in-memory set
\* only grows, by the absolute post-rename path of each file marked; the resume
\* file lists a subset of the in-memory set, and a write that succeeds makes it
\* list exactly that set; a later run runs no stage for a file whose path the
\* resume file listed when the run started
C16_ResumePersistence ==
    /\ [](logger # NoneV => Listed(resume_file) \subseteq logger.val.processed_files)
    /\ [](run > 1 /\ mpc = "file" /\ pc \notin { "start", "done" } => ~InResumeSet)
    /\ [][(logger = NoneV /\ logger' # NoneV) =>
             logger'.val.processed_files = Listed(resume_file)]_vars
    /\ [][(logger # NoneV /\ logger' # NoneV /\ logger' # logger) =>
             /\ pc = "mark" /\ ~cfg.dry_run /\ result.val.failed = 0
             /\ logger'.val.processed_files =
                   logger.val.processed_files \cup
                   { IF did_rename THEN CWD \o "/" \o new_path.val
                     ELSE CWD \o "/" \o pdf }]_vars
    /\ [][resume_file' # resume_file =>
             /\ logger' # NoneV /\ logger' # logger
             /\ resume_file' \in { Some(logger'.val.processed_files), Corrupt }]_vars

C16_Witness ==
    /\ run = 2 /\ pc = "done" /\ result = Some([skipped |-> 1])
    /\ pdf # WatermarkedPdf
    /\ resume_file = Some({ OldPdf, CWD \o "/" \o pdf })
    /\ logger.val.processed_files = resume_file.val

-----------------------------------------------------------------------------
(* Abort and ordering                                                      *)

\* the candidates discovery has handed out in the current run
YieldedOfRun == SelectSeq(yielded, LAMBDA y : y.run = run)

\* C18: once ABORT_SCAN is set no candidate is yielded or collected any more, in
\* both modes and for directory and single-file roots; every candidate yielded
\* before has been passed to process_single_pdf when main returns; and setting
\* the flag changes nothing of the file in flight
C18_CooperativeAbort ==
    /\ [](\A i \in 1..Len(YieldedOfRun) : ~YieldedOfRun[i].aborted)
    /\ []((mpc = "exit" /\ status.val.how = "return") =>
            /\ Len(ResultsOfRun) = Len(YieldedOfRun)
            /\ \A i \in 1..Len(YieldedOfRun) :
                  \E j \in 1..Len(ResultsOfRun) : ResultsOfRun[j].pdf = YieldedOfRun[i].path)
    /\ [][ABORT_SCAN' # ABORT_SCAN =>
             UNCHANGED << fs, pdf, pc, fvars, logger, resume_file, staging >>]_vars

\* the lower-cased full path contains one of the fixed patterns
CloudPath(path) ==
    \E pattern \in { "onedrive", "dropbox", "google drive", "crossdevice", "icloud",
                      "box sync", "sync", "cloud" } :
        Find(Lower(path), pattern) > 0

\* the files of the library whose path is a cloud path
CloudFiles == { f \in DOMAIN Library : CloudPath(f) }

\* the elements of a sequence
Range(sq) == { sq[i] : i \in 1..Len(sq) }

\* C19: in eager mode a discovered file is in the cloud list exactly when its
\* lower-cased path contains one of the patterns, every discovered file is in
\* exactly one of the two lists, and main processes every local file before any
\* cloud file
C19_CloudLast ==
    ~Streaming =>
        /\ Range(cloud_pdfs) \subseteq CloudFiles
        /\ Range(local_pdfs) \subseteq (DOMAIN Library) \ CloudFiles
        /\ Len(local_pdfs) + Len(cloud_pdfs) = Len(YieldedOfRun)
        /\ \A i \in 1..Len(YieldedOfRun) :
              YieldedOfRun[i].path \in Range(local_pdfs) \cup Range(cloud_pdfs)
        /\ \A i, j \in 1..Len(ResultsOfRun) :
              (i < j /\ ResultsOfRun[i].pdf \in CloudFiles) =>
                  ResultsOfRun[j].pdf \in CloudFiles
        /\ (mpc = "exit" /\ status.val.how = "return") =>
              Len(ResultsOfRun) = Len(YieldedOfRun)

C19_Witness ==
    /\ ~Streaming /\ mpc = "exit" /\ status.val.how = "return"
    /\ Len(YieldedOfRun) = 2 /\ YieldedOfRun[1].path = CloudPdf
    /\ Len(ResultsOfRun) = 2 /\ ResultsOfRun[1].pdf = RootPdf
    /\ ResultsOfRun[2].pdf = CloudPdf

-----------------------------------------------------------------------------
(* C21: timestamp round trip                                                *)

\* process_pdf has replaced the file and returned success
Replaced ==
    /\ pc = "returned" /\ ret # NoneV /\ ret.val.changed /\ ~cfg.dry_run
    /\ pdf \in DOMAIN fs

\* the times of the file at path are the captured ones
TimesAre(path, t) ==
    /\ fs[path].atime = t.val.atime
    /\ fs[path].mtime = t.val.mtime

\* C21 as stated: after a successful process_pdf that replaced the file, and
\* after a successful rename, the access and modify times of the resulting file
\* are the ones get_file_times captured before the operation
C21_Original ==
    /\ (Replaced /\ times # NoneV) => TimesAre(pdf, times)
    /\ (pc = "report" /\ did_rename /\ ~cfg.dry_run /\ times # NoneV)
          => TimesAre(new_path.val, times)

\* C21 amended: restore_times leaves the replaced file with the captured times
\* or, when os.utime fails, with the times of the write, and in both cases
\* process_pdf returns success; a rename keeps the captured times; when the
\* capture failed restore_times changes nothing in the directory
C21_TimestampRoundTrip ==
    /\ [][Restore =>
            /\ ret'.val.err = NoneV /\ ret'.val.changed
            /\ \/ fs' = fs
               \/ /\ times # NoneV
                  /\ fs' = [fs EXCEPT ![pdf].atime = times.val.atime,
                                      ![pdf].mtime = times.val.mtime]
            /\ times = NoneV => fs' = fs]_vars
    /\ []((pc = "report" /\ did_rename /\ ~cfg.dry_run /\ times # NoneV)
             => TimesAre(new_path.val, times))
    /\ [][(pc = "attempt" /\ pc' = "report" /\ times = NoneV) =>
            fs' = Del(Put(fs, new_path.val, fs[pdf]), pdf)]_vars

\* C21 witness: the file was replaced, os.utime worked and the file carries the
\* captured times, which differ from the times of the write
C21_Witness ==
    /\ Replaced /\ times # NoneV /\ TimesAre(pdf, times)
    /\ fs[pdf].form = "saved" /\ fs[pdf].atime # fs[pdf].mtime

-----------------------------------------------------------------------------
(* C22: scenario C, a clean file with a normalized name                     *)

\* the documents with no watermark text and no matching link
CleanDocs == { d \in Docs : LinkPassHits(d) + TextPassHits(d) = 0 }

\* the names compute_rename leaves alone
NormalizedNames == { n \in PdfNames : compute_rename(n, {n}) = NoneV }

\* one call of process_single_pdf on such a file is over: default flags, no dry run
ScenarioC ==
    /\ pc = "done" /\ variant = "base"
    /\ ~cfg.dry_run /\ ~cfg.links_only /\ ~cfg.no_rename
    /\ pdf \in NormalizedNames /\ orig[pdf].pages \in CleanDocs

ZeroResult == Some([cleaned |-> 0, renamed |-> 0, failed |-> 0])

-----------------------------------------------------------------------------
(* C23: the changed flag of process_pdf                                     *)

\* C23: on every call of process_pdf that did not fail, dry run or not, the
\* returned changed flag is true exactly when text_hits + link_hits > 0, and the
\* result record has cleaned = 1 only for a file with at least one hit
C23_ChangedIffHits ==
    /\ (pc = "returned" /\ ret.val.err = NoneV)
          => (ret.val.changed <=> (ret.val.text_hits + ret.val.link_hits > 0))
    /\ (pc = "done" /\ ret # NoneV /\ ret.val.err = NoneV /\ result.val.failed = 0)
          => (result.val.cleaned = 1 => ret.val.text_hits + ret.val.link_hits > 0)

-----------------------------------------------------------------------------
(* C24: the two passes of process_pdf                                       *)

\* the pages of the file as process_pdf opened it
OpenedPages == orig[pdf].pages

\* the document in memory has the text spans of every page as they were opened
SpansKept ==
    /\ Len(doc.val) = Len(OpenedPages)
    /\ \A i \in 1..Len(OpenedPages) : doc.val[i].spans = OpenedPages[i].spans

\* what the link pass makes of each input document: its pages and its count
LinkPassOf == [d \in Docs |-> [pages |-> LinkPassPages(d), hits |-> LinkPassHits(d)]]

\* C24: the link pass has run over every page, in every mode, when the text pass
\* starts or is skipped; the text pass starts on untouched text and never in
\* links-only mode; in links-only mode no span is redacted, text_hits is 0 and
\* changed is link_hits > 0
C24_LinksThenText ==
    /\ [][(pc = "text" /\ pc' = "decide") =>
            /\ ~cfg.links_only
            /\ SpansKept
            /\ doc.val = LinkPassOf[OpenedPages].pages
            /\ link_hits = LinkPassOf[OpenedPages].hits
            /\ link_hits' = link_hits]_vars
    /\ []((pc = "decide" /\ cfg.links_only) =>
            /\ text_hits = 0
            /\ SpansKept
            /\ doc.val = LinkPassOf[OpenedPages].pages
            /\ link_hits = LinkPassOf[OpenedPages].hits)
    /\ [][(pc = "decide" /\ cfg.links_only) => (changed' <=> link_hits > 0)]_vars

\* C24 witness: links-only mode has reached the decision on a document of more
\* than one page whose watermark text the text pass would have redacted
C24_Witness ==
    /\ pc = "decide" /\ cfg.links_only /\ text_hits = 0
    /\ Len(doc.val) > 1 /\ OpenedPages \notin CleanDocs /\ SpansKept

-----------------------------------------------------------------------------
(* C25: the files one call of process_single_pdf touches                    *)

\* C25: apart from the candidate itself and its ".pdf.tmp" sibling, every file
\* that was in the directory when the processing of the candidate began, in
\* particular every other PDF, is still there with the same bytes and times
C25_OwnPathsOnly ==
    \A f \in DOMAIN orig \ { pdf, TempPath(pdf) } :
        f \in DOMAIN fs /\ fs[f] = orig[f]

-----------------------------------------------------------------------------
(* C26: every candidate is processed once                                   *)

\* C26: in a run no path is handed to process_single_pdf twice, and when main
\* returns every candidate that discovery produced has been handed to it
C26_ExactlyOnce ==
    /\ \A i, j \in 1..Len(ResultsOfRun) :
          ResultsOfRun[i].pdf = ResultsOfRun[j].pdf => i = j
    /\ (mpc = "exit" /\ status.val.how = "return")
          => Len(ResultsOfRun) = Len(YieldedOfRun)

-----------------------------------------------------------------------------
(* C27: compute_rename applied to its own result                            *)

\* C27: when compute_rename has returned a new path, compute_rename applied to
\* that path, in the directory after the rename, returns "no change"
C27_FixedPoint ==
    (pc = "computed" /\ new_path # NoneV) =>
        compute_rename(new_path.val, ((DOMAIN fs) \ { pdf }) \cup { new_path.val })
            = NoneV


\* C27 witness: a prefixed name whose wanted name and first candidate are taken
\* was given "Fitzgerald - Gatsby (2).pdf", which compute_rename leaves alone
C27_Witness ==
    /\ pc = "computed"
    /\ pdf = "_OceanofPDFs.com_Gatsby_-_Fitzgerald.pdf"
    /\ new_path = Some("Fitzgerald - Gatsby (2).pdf")
    /\ compute_rename(new_path.val, ((DOMAIN fs) \ { pdf }) \cup { new_path.val })
          = NoneV

-----------------------------------------------------------------------------
(* C28: the failed counter and the errors mapping                           *)

\* the total length of the lists of a mapping
RECURSIVE TotalLen(_)
TotalLen(m) ==
    IF DOMAIN m = {} THEN 0
    ELSE LET k == CHOOSE x \in DOMAIN m : TRUE
         IN  Len(m[k]) + TotalLen([x \in (DOMAIN m) \ { k } |-> m[x]])

\* the results of the run that are failures
FailedOfRun ==
    SelectSeq(ResultsOfRun,
              LAMBDA h : "failed" \in DOMAIN h.result /\ h.result.failed = 1)

\* the file names of the failures of the run with error text e, in order
FailedWith(e) ==
    LET fe == SelectSeq(FailedOfRun, LAMBDA h : h.result.error = e)
    IN  [i \in 1..Len(fe) |-> fe[i].result.filename]

\* C28: after every processed file the failed counter is the number of file
\* names in all lists of errors, each list holds exactly the names of the files
\* that failed with its error text, and failed plus skipped is at most the
\* number of files processed so far
C28_FailedMatchesErrors ==
    /\ count.failed = TotalLen(errors)
    /\ count.failed = Len(FailedOfRun)
    /\ \A i \in 1..Len(FailedOfRun) : FailedOfRun[i].result.error \in DOMAIN errors
    /\ \A e \in DOMAIN errors : errors[e] = FailedWith(e)
    /\ count.failed + count.skipped <= Len(ResultsOfRun)
    /\ variant = "base" => count.skipped = 0

\* C28 witness: three files were processed, two of them failed with the same
\* error text and the third did not fail
C28_Witness ==
    /\ Len(ResultsOfRun) = 3 /\ count.failed = 2
    /\ \E e \in DOMAIN errors : Len(errors[e]) = 2

-----------------------------------------------------------------------------
(* C29: what enters the resume set                                          *)

\* C29: process_single_pdf adds a path to the resume set only as its last step,
\* outside dry-run mode, after a content transform and a rename that did not
\* fail; a file whose result is a failure or a skip, or that was processed in
\* dry-run mode, is not added
C29_MarkOnlyOnSuccess ==
    /\ [][(mpc = "file" /\ logger # NoneV /\ logger' # logger) =>
            /\ pc = "mark" /\ pc' = "done"
            /\ ~cfg.dry_run
            /\ ret.val.err = NoneV
            /\ result.val.failed = 0
            /\ logger'.val.processed_files =
                  logger.val.processed_files \cup { Absolute(final_path) }]_vars
    /\ [][(mpc = "file" /\ pc' = "done" /\ logger # NoneV /\
           (cfg.dry_run \/ "skipped" \in DOMAIN result'.val \/ result'.val.failed = 1))
             => logger' = logger]_vars

-----------------------------------------------------------------------------
(* C30: the two discovery modes                                             *)

\* root, looked at in the tree the program was started on, selects the file p:
\* a file root that is a PDF selects itself, a directory selects every file
\* below it whose name ends in ".pdf" in any letter case
Selects(root, p) ==
    IF is_file(Library, root)
    THEN p = root /\ Lower(Suffix(root)) = ".pdf"
    ELSE /\ is_dir(Library, root)
         /\ root \in Ancestors(p)
         /\ EndsWith(Lower(Name(p)), ".pdf")

\* how often the roots of the command line select p
SelectedTimes(p) == Cardinality({ i \in 1..Len(paths) : Selects(paths[i], p) })

\* how often discovery has produced p in this run
YieldedTimes(p) ==
    Cardinality({ i \in 1..Len(YieldedOfRun) : YieldedOfRun[i].path = p })

\* C30: when main has returned and no abort was asked for, discovery has produced,
\* in streaming mode as in standard mode, every file of the tree as often as the
\* roots select it and nothing else, so both modes produce the same collection
C30_ModesAgree ==
    (mpc = "exit" /\ status.val.how = "return" /\ ~ABORT_SCAN) =>
        \A p \in (DOMAIN Library) \cup { YieldedOfRun[i].path : i \in 1..Len(YieldedOfRun) } :
            YieldedTimes(p) = SelectedTimes(p)

=========================================================================
